---- MODULE Spec2Model ----
(***************************************************************************)
(* A model of the mobile-automation client (enhanced_mcp_client.py): the   *)
(* session state it keeps, and its operations as sequences of backend      *)
(* requests.  Every await of call_tool is a step: the client writes a      *)
(* request, the backend answers, the client continues from the answer.     *)
(* Text is a sequence of one-character strings, so that lower(), strip()   *)
(* and substring tests are computed and not assumed.                       *)
(***************************************************************************)
EXTENDS Naturals, Sequences, FiniteSets, TLC

VARIABLES
    session_active,     \* EnhancedMCPClient.session_active
    current_platform,   \* EnhancedMCPClient.current_platform: <<>> is None, <<t>> is the text t
    last_element_id,    \* EnhancedMCPClient.last_element_id
    element_store,      \* EnhancedMCPClient.element_store: key text -> element id
    pc,                 \* the await the client is suspended at, "idle" between calls
    op,                 \* the arguments of the call in progress
    fingerprint_before, \* smart_tap_element's fingerprint_before
    candidates,         \* the candidate list of the inspection fallback
    trials,             \* the (tier, strategy, value) attempts still to make
    inflight,           \* the request written to the channel and not yet answered
    resp,               \* the response line read for it
    log,                \* the requests and responses of the call in progress, in order
    ret,                \* what the last call returned
    raised,             \* TRUE when the last call ended in an exception
    calls,              \* the calls made on this client so far
    request_id,         \* EnhancedMCPClient.request_id
    stdin,              \* process.stdin: the ids of the requests written and not yet handled
    stdout,             \* process.stdout: the lines written by the backend and not yet read
    awaited,            \* the id of the request send_request is reading the line for, 0 when none
    got,                \* how the last send_request ended
    json_blocks,        \* execute_tool_calls' json_blocks: "bad_json" or "tool" for each block
    block_i,            \* the block the loop of execute_tool_calls is at, from 1
    handled,            \* the blocks the loop has been through and how each ended, in order
    backend_alive,      \* FALSE once the backend process has ended
    active_session,     \* appium_controller.active_session: driver 0 is None
    drivers,            \* the drivers webdriver.Remote made, each "live" or "quit"
    controller_element_store,   \* appium_controller.element_store: element id -> its driver
    screen,             \* the pages the driver's app has shown, the one it shows now last
    phase               \* where the run is: "main", "start", "loop", "returned", "failed", "terminated"

vars == <<session_active, current_platform, last_element_id, element_store, pc, op,
          fingerprint_before, candidates, trials, inflight, resp, log, ret, raised, calls,
          request_id, stdin, stdout, awaited, got,
          json_blocks, block_i, handled, backend_alive, phase,
          active_session, drivers, controller_element_store, screen>>

\* The state of the channel to the backend process.
transport == <<request_id, stdin, stdout, awaited, got>>

\* The state of a run of the orchestrator.
orchestrator == <<json_blocks, block_i, handled, backend_alive, phase>>

\* The state of the controller in the backend process.
controller == <<active_session, drivers, controller_element_store, screen>>

client == <<session_active, current_platform, last_element_id, element_store>>

-----------------------------------------------------------------------------
(* Bounds of the model.                                                    *)

\* The longest UI snapshot (number of nodes of the markup) the backend returns.
MaxNodes == 2

\* The requests one client writes to the channel.
MaxRequests == 3

\* The words of a target text the strategy builder is given.
MaxWords == 2

\* The blocks of one run of execute_tool_calls.
MaxBlocks == 3

\* The prompts of one interactive run.
MaxPrompts == 2

\* The most tool calls the backend serves in a run of the controller.
MaxServed == 5

\* The most nodes of a parsed tree the extractor is given.
MaxTree == 4

\* The largest max_elements the extractor is called with.
MaxLimit == 2

\* The largest max_scrolls scroll_to_find_element is called with.
MaxScrolls == 2

\* The calls made on one client (execute_tool_calls makes a client per batch).
MaxCalls == 3

-----------------------------------------------------------------------------
(* Text.                                                                   *)

None == "<None>"

\* str.lower()
Lower(s) ==
    LET upper == <<"A", "B", "C", "D", "E", "F", "G", "H", "I", "J", "K", "L", "M",
                   "N", "O", "P", "Q", "R", "S", "T", "U", "V", "W", "X", "Y", "Z">>
        lower == <<"a", "b", "c", "d", "e", "f", "g", "h", "i", "j", "k", "l", "m",
                   "n", "o", "p", "q", "r", "s", "t", "u", "v", "w", "x", "y", "z">>
    IN  [i \in DOMAIN s |->
            IF \E k \in DOMAIN upper : upper[k] = s[i]
            THEN lower[CHOOSE k \in DOMAIN upper : upper[k] = s[i]]
            ELSE s[i]]

\* str.strip()
Strip(s) ==
    LET kept == {i \in DOMAIN s : s[i] # " "}
    IN  IF kept = {} THEN <<>>
        ELSE SubSeq(s, CHOOSE i \in kept : \A k \in kept : i <= k,
                       CHOOSE i \in kept : \A k \in kept : k <= i)

\* t in s, for two texts
Contains(s, t) == \E i \in 0..Len(s) : i + Len(t) <= Len(s) /\ SubSeq(s, i + 1, i + Len(t)) = t

\* str.replace(a, b), for two characters
Replace(s, a, b) == [i \in DOMAIN s |-> IF s[i] = a THEN b ELSE s[i]]

\* not x, for an element id
Falsy(x) == x \in {None, ""}

ElemIds  == {"e1", "e2"}
NameText == <<"N", "a", "m", "e">>

-----------------------------------------------------------------------------
(* Element descriptors and markup.                                         *)

\* An element descriptor as enhanced_extract_selectors builds it; an absent
\* field is the empty text, and a label is also the text of an element
\* without text content.
Elem(tag, text, acc, label, id, cls) ==
    [tag |-> tag, text |-> text, accessibility_id |-> acc, label |-> label,
     id |-> id, class_name |-> cls]

\* The elements of the pages: for the target "OK " an exact match by text,
\* an exact match by label, a match by containment and a structural node
\* without information.
Elements ==
    {Elem("Button", <<"O", "k">>, <<"o", "k", "B", "t", "n">>, <<>>, <<>>, <<>>),
     Elem("Cell", <<"o", "k">>, <<>>, <<"o", "k">>, <<"r", "1">>, <<"c">>),
     Elem("Text", <<"B", "o", "o", "k">>, <<>>, <<>>, <<"r", "2">>, <<>>),
     Elem("XCUIElementTypeOther", <<>>, <<>>, <<>>, <<>>, <<>>)}

RECURSIVE SeqsUpTo(_, _)
SeqsUpTo(S, n) ==
    IF n = 0 THEN {<<>>}
    ELSE LET shorter == SeqsUpTo(S, n - 1)
         IN  shorter \cup {Append(s, e) : s \in shorter, e \in S}

\* The page source: kind is "native" (XML of an app), "web" (markup holding
\* an <html marker), "empty" ('') or "garbage" (text that is not XML).  rx
\* holds, per regular expression of recover_text_via_page_source, the
\* stripped group it finds (empty: no match).
Markup(kind, nodes, title, forms, buttons, rx) ==
    [kind |-> kind, nodes |-> nodes, title |-> title, forms |-> forms,
     buttons |-> buttons, rx |-> rx]

EmptyMarkup == Markup("empty", <<>>, "", 0, 0, <<<<>>, <<>>, <<>>, <<>>>>)

\* The page sources the backend returns: native pages of up to MaxNodes
\* elements, two web pages, two native pages the recovery patterns match,
\* the empty text and a text that is not XML.
Markups ==
    LET NoMatch == <<<<>>, <<>>, <<>>, <<>>>>
        Link    == Elem("a", <<"B", "o", "o", "k">>, <<>>, <<>>, <<"r", "2">>, <<>>)
        Other   == Elem("XCUIElementTypeOther", <<>>, <<>>, <<>>, <<>>, <<>>)
    IN  {Markup("native", s, "", 0, 0, NoMatch) : s \in SeqsUpTo(Elements, MaxNodes)}
        \cup {Markup("web", <<Link>>, "Login", 1, 1, NoMatch),
              Markup("web", <<Link>>, "Home", 0, 3, NoMatch)}
        \cup {Markup("native", <<Other>>, "", 0, 0, <<NameText, <<>>, <<"B", "o", "b">>, <<>>>>),
              Markup("native", <<Other>>, "", 0, 0, <<NameText, <<>>, NameText, <<>>>>)}
        \cup {EmptyMarkup, Markup("garbage", <<>>, "", 0, 0, NoMatch)}

-----------------------------------------------------------------------------
(* Requests, responses and results.                                        *)

\* A locator value: the format f with the texts of args put in for its {}
\* in order; "{}" is a text itself and a format without {} is a literal.
Val(f, args) == [f |-> f, args |-> args]
NoVal == Val("", <<>>)

\* The tools/call request call_tool sends.
Req(tool, strategy, value, element_id, arg) ==
    [tool |-> tool, strategy |-> strategy, value |-> value, element_id |-> element_id, arg |-> arg]

NoReq == Req("", "", NoVal, None, "")

FindReq(strategy, value) == Req("appium_find_element", strategy, value, None, "")
TapReq(element_id)       == Req("appium_tap_element", "", NoVal, element_id, "")
GetTextReq(element_id)   == Req("appium_get_text", "", NoVal, element_id, "")
PageSourceReq(full)      == Req("appium_get_page_source", "", NoVal, None, IF full THEN "full" ELSE "brief")

\* A result mapping: what parse_tool_result yields and what the client's
\* methods return.  A key the mapping lacks has the value .get() defaults to.
Result(status, element_id, text, page_source, message) ==
    [status |-> status, element_id |-> element_id, text |-> text,
     page_source |-> page_source, message |-> message,
     error_type |-> "", recovery_attempted |-> FALSE]

Error(message)   == Result("error", None, <<>>, EmptyMarkup, message)
Success(message) == Result("success", None, <<>>, EmptyMarkup, message)
NoRet == Result("", None, <<>>, EmptyMarkup, "")

\* The response line: "none" while nothing was read, "raise" when
\* send_request raises (no line, an error member, a line that is not JSON),
\* "null" for a result without content, "result" for a result whose content
\* text is the JSON object obj.  The other shapes of a result: "no_content"
\* lacks the content member, "empty_content" has an empty content list,
\* "no_text" has a first content item without a text member, "not_json" has
\* a text that is not JSON, "not_object" has a text that is the JSON value
\* obj, which is not an object.
Resp(kind, obj) == [kind |-> kind, obj |-> obj]
NoResp == Resp("none", NoRet)

\* parse_tool_result: result['content'][0]['text'] raises KeyError.
parse_tool_result_raises(r) == r.kind = "no_text"

\* parse_tool_result, where it returns: json.loads of the text is returned
\* as it is.
parse_tool_result(r) ==
    IF r.kind \in {"result", "not_object"} THEN r.obj
    ELSE IF r.kind = "not_json" THEN Error("Invalid JSON in response")
    ELSE Error("No content in response")

\* What the backend may answer to a request.  An error result of the
\* controller's get_text quotes the exception's text in its message and
\* names its class in error_type.
BackendResults(req) ==
    CASE req.tool = "appium_find_element" ->
            {Result("success", e, <<>>, EmptyMarkup, "") : e \in ElemIds \cup {None}}
            \cup {Error("not found")}
      [] req.tool = "appium_get_text" ->
            {Result("success", None, t, EmptyMarkup, "") :
                t \in {<<>>, <<" ">>, NameText, <<" ">> \o NameText, <<"B", "o", "b">>}}
            \cup {[Error("Failed to retrieve text: StaleElementReferenceException")
                      EXCEPT !.error_type = "StaleElementReferenceException"],
                  [Error("Failed to retrieve text: stale element reference")
                      EXCEPT !.error_type = "StaleElementReferenceException"],
                  [Error("Failed to retrieve text: no such element")
                      EXCEPT !.error_type = "NoSuchElementException"]}
      [] req.tool = "appium_get_page_source" ->
            {Result("success", None, <<>>, m, "") : m \in Markups} \cup {Error("No active session")}
      [] OTHER -> {Success(""), Error("failed")}

Responses(req) ==
    {Resp("raise", NoRet), Resp("null", NoRet)} \cup {Resp("result", o) : o \in BackendResults(req)}

-----------------------------------------------------------------------------
(* The transport, as the client's methods use it.                          *)

\* An entry of the log: a request written ("req") or its response read
\* ("resp"), with the tool and locator of the request and the part of the
\* call that sent it: the match tier of the candidate an attempt is made on,
\* the alternative tap method, "" otherwise.
Event(ev, req, tier) ==
    [ev |-> ev, tool |-> req.tool, strategy |-> req.strategy, value |-> req.value,
     arg |-> req.arg, tier |-> tier]

\* call_tool up to its readline: the request is written and the caller waits.
Send(req, tier, next) ==
    /\ inflight' = req
    /\ resp' = NoResp
    /\ log' = Append(log, Event("req", req, tier))
    /\ pc' = next
    /\ UNCHANGED <<ret, raised, calls, transport, orchestrator, controller>>

\* The fingerprint {}.
NoFingerprint == [empty |-> TRUE]

\* A call begins: its locals are fresh.
Begin ==
    /\ calls < MaxCalls
    /\ calls' = calls + 1
    /\ UNCHANGED <<transport, orchestrator, controller>>
    /\ fingerprint_before' = NoFingerprint
    /\ candidates' = <<>>
    /\ trials' = <<>>

\* The first request of a call: the record of the previous call is dropped.
Start(req, next) ==
    /\ Begin
    /\ inflight' = req
    /\ resp' = NoResp
    /\ log' = <<Event("req", req, "")>>
    /\ pc' = next
    /\ ret' = NoRet
    /\ raised' = FALSE

\* The call in progress returns result.
Return(result) ==
    /\ pc' = "idle"
    /\ ret' = result
    /\ raised' = FALSE
    /\ inflight' = NoReq
    /\ resp' = NoResp
    /\ log' = log
    /\ calls' = calls
    /\ UNCHANGED <<transport, orchestrator, controller>>

\* A call returns result before its first request.
ReturnNow(result) ==
    /\ Begin
    /\ pc' = "idle"
    /\ ret' = result
    /\ raised' = FALSE
    /\ inflight' = NoReq
    /\ resp' = NoResp
    /\ log' = <<>>

\* The call in progress ends in an exception.
Raise ==
    /\ pc' = "idle"
    /\ ret' = NoRet
    /\ raised' = TRUE
    /\ inflight' = NoReq
    /\ resp' = NoResp
    /\ log' = log
    /\ calls' = calls
    /\ UNCHANGED <<transport, orchestrator, controller>>

\* The client is suspended at label and the response has been read.
At(label) == pc = label /\ resp.kind # "none"

\* The backend answers the request in flight.
Respond ==
    /\ inflight # NoReq
    /\ resp.kind = "none"
    /\ \E r \in Responses(inflight) :
          /\ resp' = r
          /\ log' = Append(log, Event("resp", inflight, ""))
    /\ inflight' = NoReq
    /\ UNCHANGED <<client, pc, op, fingerprint_before, candidates, trials, ret, raised, calls,
                   transport, orchestrator, controller>>

-----------------------------------------------------------------------------
(* The session.                                                            *)

NonePlatform == <<>>
\* A session argument mapping, as far as normalize_app_identifier reads
\* it here: a key that is missing is <<>>, a key with the text t is <<t>>.
\* app stands for the seven keys an app identifier can come under.
AppInfo(platform, app, app_activity, appActivity, udid, xcode_org_id, wda_bundle_id) ==
    [platform |-> platform, app |-> app, app_activity |-> app_activity,
     appActivity |-> appActivity, udid |-> udid, xcode_org_id |-> xcode_org_id,
     wda_bundle_id |-> wda_bundle_id]

\* The session arguments: platform is <<>> when the key is missing.
SessionArgs ==
    {AppInfo(p, <<>>, <<>>, <<>>, <<>>, <<>>, <<>>) :
        p \in {<<>>, <<<<"i", "O", "S">>>>, <<<<"a", "n", "d", "r", "o", "i", "d">>>>}}

\* normalize_app_identifier: common_apps, a list of (name, bundle) pairs
\* for each platform.
common_apps ==
    [ios |->
      <<
         <<<<"s", "e", "t", "t", "i", "n", "g", "s">>,
           <<"c", "o", "m", ".", "a", "p", "p", "l", "e", ".", "P", "r", "e", "f", "e", "r", "e", "n", "c", "e", "s">>>>,
         <<<<"s", "a", "f", "a", "r", "i">>,
           <<"c", "o", "m", ".", "a", "p", "p", "l", "e", ".", "m", "o", "b", "i", "l", "e", "s", "a", "f", "a", "r", "i">>>>,
         <<<<"n", "o", "t", "e", "s">>,
           <<"c", "o", "m", ".", "a", "p", "p", "l", "e", ".", "m", "o", "b", "i", "l", "e", "n", "o", "t", "e", "s">>>>,
         <<<<"p", "h", "o", "t", "o", "s">>,
           <<"c", "o", "m", ".", "a", "p", "p", "l", "e", ".", "m", "o", "b", "i", "l", "e", "s", "l", "i", "d", "e", "s", "h", "o", "w">>>>,
         <<<<"m", "e", "s", "s", "a", "g", "e", "s">>,
           <<"c", "o", "m", ".", "a", "p", "p", "l", "e", ".", "M", "o", "b", "i", "l", "e", "S", "M", "S">>>>,
         <<<<"p", "h", "o", "n", "e">>,
           <<"c", "o", "m", ".", "a", "p", "p", "l", "e", ".", "m", "o", "b", "i", "l", "e", "p", "h", "o", "n", "e">>>>,
         <<<<"c", "a", "l", "c", "u", "l", "a", "t", "o", "r">>,
           <<"c", "o", "m", ".", "a", "p", "p", "l", "e", ".", "c", "a", "l", "c", "u", "l", "a", "t", "o", "r">>>>,
         <<<<"c", "a", "l", "e", "n", "d", "a", "r">>,
           <<"c", "o", "m", ".", "a", "p", "p", "l", "e", ".", "m", "o", "b", "i", "l", "e", "c", "a", "l">>>>,
         <<<<"c", "o", "n", "t", "a", "c", "t", "s">>,
           <<"c", "o", "m", ".", "a", "p", "p", "l", "e", ".", "M", "o", "b", "i", "l", "e", "A", "d", "d", "r", "e", "s", "s", "B", "o", "o", "k">>>>,
         <<<<"m", "u", "s", "i", "c">>,
           <<"c", "o", "m", ".", "a", "p", "p", "l", "e", ".", "M", "u", "s", "i", "c">>>>,
         <<<<"m", "a", "p", "s">>,
           <<"c", "o", "m", ".", "a", "p", "p", "l", "e", ".", "M", "a", "p", "s">>>>,
         <<<<"w", "e", "a", "t", "h", "e", "r">>,
           <<"c", "o", "m", ".", "a", "p", "p", "l", "e", ".", "w", "e", "a", "t", "h", "e", "r">>>>,
         <<<<"c", "l", "o", "c", "k">>,
           <<"c", "o", "m", ".", "a", "p", "p", "l", "e", ".", "m", "o", "b", "i", "l", "e", "t", "i", "m", "e", "r">>>>,
         <<<<"r", "e", "m", "i", "n", "d", "e", "r">>,
           <<"c", "o", "m", ".", "a", "p", "p", "l", "e", ".", "r", "e", "m", "i", "n", "d", "e", "r", "s">>>>,
         <<<<"m", "a", "i", "l">>,
           <<"c", "o", "m", ".", "a", "p", "p", "l", "e", ".", "m", "o", "b", "i", "l", "e", "m", "a", "i", "l">>>>,
         <<<<"f", "i", "l", "e", "s">>,
           <<"c", "o", "m", ".", "a", "p", "p", "l", "e", ".", "D", "o", "c", "u", "m", "e", "n", "t", "s", "A", "p", "p">>>>,
         <<<<"f", "a", "c", "e", "t", "i", "m", "e">>,
           <<"c", "o", "m", ".", "a", "p", "p", "l", "e", ".", "f", "a", "c", "e", "t", "i", "m", "e">>>>,
         <<<<"p", "o", "d", "c", "a", "s", "t", "s">>,
           <<"c", "o", "m", ".", "a", "p", "p", "l", "e", ".", "p", "o", "d", "c", "a", "s", "t", "s">>>>
      >>,
     android |->
      <<
         <<<<"s", "e", "t", "t", "i", "n", "g", "s">>,
           <<"c", "o", "m", ".", "a", "n", "d", "r", "o", "i", "d", ".", "s", "e", "t", "t", "i", "n", "g", "s">>>>,
         <<<<"c", "h", "r", "o", "m", "e">>,
           <<"c", "o", "m", ".", "a", "n", "d", "r", "o", "i", "d", ".", "c", "h", "r", "o", "m", "e">>>>,
         <<<<"c", "o", "n", "t", "a", "c", "t", "s">>,
           <<"c", "o", "m", ".", "a", "n", "d", "r", "o", "i", "d", ".", "c", "o", "n", "t", "a", "c", "t", "s">>>>,
         <<<<"p", "h", "o", "n", "e">>,
           <<"c", "o", "m", ".", "a", "n", "d", "r", "o", "i", "d", ".", "d", "i", "a", "l", "e", "r">>>>,
         <<<<"m", "e", "s", "s", "a", "g", "e", "s">>,
           <<"c", "o", "m", ".", "g", "o", "o", "g", "l", "e", ".", "a", "n", "d", "r", "o", "i", "d", ".", "a", "p", "p", "s", ".", "m", "e", "s", "s", "a", "g", "i", "n", "g">>>>,
         <<<<"g", "a", "l", "l", "e", "r", "y">>,
           <<"c", "o", "m", ".", "g", "o", "o", "g", "l", "e", ".", "a", "n", "d", "r", "o", "i", "d", ".", "a", "p", "p", "s", ".", "p", "h", "o", "t", "o", "s">>>>,
         <<<<"c", "a", "l", "c", "u", "l", "a", "t", "o", "r">>,
           <<"c", "o", "m", ".", "g", "o", "o", "g", "l", "e", ".", "a", "n", "d", "r", "o", "i", "d", ".", "c", "a", "l", "c", "u", "l", "a", "t", "o", "r">>>>,
         <<<<"c", "a", "l", "e", "n", "d", "a", "r">>,
           <<"c", "o", "m", ".", "g", "o", "o", "g", "l", "e", ".", "c", "a", "l", "e", "n", "d", "a", "r">>>>,
         <<<<"g", "m", "a", "i", "l">>,
           <<"c", "o", "m", ".", "g", "o", "o", "g", "l", "e", ".", "a", "n", "d", "r", "o", "i", "d", ".", "g", "m">>>>,
         <<<<"m", "a", "p", "s">>,
           <<"c", "o", "m", ".", "g", "o", "o", "g", "l", "e", ".", "a", "n", "d", "r", "o", "i", "d", ".", "a", "p", "p", "s", ".", "m", "a", "p", "s">>>>,
         <<<<"y", "o", "u", "t", "u", "b", "e">>,
           <<"c", "o", "m", ".", "g", "o", "o", "g", "l", "e", ".", "a", "n", "d", "r", "o", "i", "d", ".", "y", "o", "u", "t", "u", "b", "e">>>>,
         <<<<"p", "l", "a", "y">>,
           <<"c", "o", "m", ".", "a", "n", "d", "r", "o", "i", "d", ".", "v", "e", "n", "d", "i", "n", "g">>>>
      >>]

\* normalize_app_identifier up to the resolution of the app name: the
\* bundle id and the app path, <<>> when there is none.
resolve_app(app_info) ==
    LET platform == IF app_info.platform = <<>> THEN <<>> ELSE Lower(app_info.platform[1])
        value    == IF app_info.app = <<>> THEN <<>> ELSE Strip(Lower(app_info.app[1]))
        StartsWith(s, p) == Len(p) <= Len(s) /\ SubSeq(s, 1, Len(p)) = p
        EndsWith(s, p)   == Len(p) <= Len(s) /\ SubSeq(s, Len(s) - Len(p) + 1, Len(s)) = p
        given    == app_info.app # <<>> /\ app_info.app[1] # <<>>
        is_bundle == /\ given
                     /\ Contains(value, <<".">>)
                     /\ \/ StartsWith(value, <<"c", "o", "m", ".">>)
                        \/ StartsWith(value, <<"o", "r", "g", ".">>)
                        \/ StartsWith(value, <<"i", "o", ".">>)
        is_path  == given /\ ~is_bundle /\ (EndsWith(value, <<".", "a", "p", "p">>) \/ Contains(value, <<"/">>))
        app_name == IF given /\ ~is_bundle /\ ~is_path THEN value ELSE <<>>
        table    == IF platform = <<"i", "o", "s">> THEN common_apps.ios
                    ELSE IF platform = <<"a", "n", "d", "r", "o", "i", "d">> THEN common_apps.android
                    ELSE <<>>
        found    == {i \in DOMAIN table : table[i][1] = app_name}
    IN  [bundle_id |-> IF is_bundle THEN app_info.app
                       ELSE IF app_name # <<>> /\ found # {}
                            THEN <<table[CHOOSE i \in found : TRUE][2]>>
                            ELSE <<>>,
         app_path  |-> IF is_path THEN app_info.app ELSE <<>>]

\* normalize_app_identifier, the iOS branch with the Safari test dropped.
ios_bundle_id_always(app_info, bundle_id) == bundle_id

\* normalize_app_identifier, the iOS branch: the bundle_id member of the
\* normalized arguments, <<>> when it is left out.
ios_bundle_id(app_info, bundle_id) ==
    IF bundle_id = <<<<"c", "o", "m", ".", "a", "p", "p", "l", "e", ".", "m", "o", "b", "i", "l", "e", "s", "a", "f", "a", "r", "i">>>>
    THEN IF app_info.udid # <<>> \/ app_info.xcode_org_id # <<>> \/ app_info.wda_bundle_id # <<>>
         THEN bundle_id
         ELSE <<>>
    ELSE bundle_id

\* The app_activity member after the loop over optional_fields: appActivity
\* is normalized to app_activity and comes later in the list.
given_app_activity(app_info) ==
    IF app_info.appActivity # <<>> THEN app_info.appActivity ELSE app_info.app_activity

\* normalize_app_identifier, the Android branch with the activity
\* synthesized whatever the arguments give.
android_app_activity_default(app_info, bundle_id) ==
    IF bundle_id # <<>> THEN <<bundle_id[1] \o <<".", "M", "a", "i", "n", "A", "c", "t", "i", "v", "i", "t", "y">>>> ELSE given_app_activity(app_info)

\* normalize_app_identifier, the Android branch: the app_activity member.
android_app_activity(app_info, bundle_id) ==
    IF bundle_id # <<>> /\ app_info.app_activity = <<>> /\ app_info.appActivity = <<>>
    THEN <<bundle_id[1] \o <<".", "M", "a", "i", "n", "A", "c", "t", "i", "v", "i", "t", "y">>>>
    ELSE given_app_activity(app_info)

\* normalize_app_identifier (device_name, the versions, start_url and the
\* signing keys are copied through and left out here).
normalize_app_identifier(app_info) ==
    LET platform == IF app_info.platform = <<>> THEN <<>> ELSE Lower(app_info.platform[1])
        resolved == resolve_app(app_info)
        bundle_id == resolved.bundle_id
    IN  [platform      |-> app_info.platform,
         udid          |-> app_info.udid,
         xcode_org_id  |-> app_info.xcode_org_id,
         wda_bundle_id |-> app_info.wda_bundle_id,
         bundle_id     |-> IF platform = <<"i", "o", "s">> THEN ios_bundle_id(app_info, bundle_id) ELSE <<>>,
         browser_name  |-> IF platform = <<"i", "o", "s">> /\ bundle_id = <<<<"c", "o", "m", ".", "a", "p", "p", "l", "e", ".", "m", "o", "b", "i", "l", "e", "s", "a", "f", "a", "r", "i">>>>
                              /\ ios_bundle_id(app_info, bundle_id) # <<>>
                           THEN <<<<"S", "a", "f", "a", "r", "i">>>> ELSE <<>>,
         app_package   |-> IF platform = <<"a", "n", "d", "r", "o", "i", "d">> THEN bundle_id ELSE <<>>,
         app_activity  |-> IF platform = <<"a", "n", "d", "r", "o", "i", "d">>
                           THEN android_app_activity(app_info, bundle_id)
                           ELSE given_app_activity(app_info),
         app_path      |-> IF platform \in {<<"i", "o", "s">>, <<"a", "n", "d", "r", "o", "i", "d">>} /\ bundle_id = <<>>
                           THEN resolved.app_path ELSE <<>>]

\* clean_args.get('platform', '').lower(): a missing platform was dropped
\* from clean_args as a None value.
CleanPlatform(clean_args) ==
    IF clean_args.platform = <<>> THEN <<>> ELSE Lower(clean_args.platform[1])

\* start_session, up to the await of call_tool
StartSession ==
    /\ pc = "idle"
    /\ \E session_args \in SessionArgs :
          LET clean_args == normalize_app_identifier(session_args)
          IN  /\ op' = [name |-> "start_session", clean_args |-> clean_args]
              /\ Start(Req("appium_start_session", "", Val("platform={}", clean_args.platform), None, ""),
                       "start_session")
    /\ UNCHANGED client

\* start_session with the status test dropped: any result starts the session.
StartSessionDoneAnyStatus ==
    /\ At("start_session")
    /\ IF resp.kind = "raise"
       THEN Raise /\ UNCHANGED <<session_active, current_platform>>
       ELSE /\ session_active' = TRUE
            /\ current_platform' = <<CleanPlatform(op.clean_args)>>
            /\ Return(parse_tool_result(resp))
    /\ UNCHANGED <<last_element_id, element_store, op, fingerprint_before, candidates, trials>>

\* start_session, from the response on
StartSessionDone ==
    /\ At("start_session")
    /\ IF resp.kind = "raise"
       THEN Raise /\ UNCHANGED <<session_active, current_platform>>
       ELSE LET parsed_result == parse_tool_result(resp)
            IN  /\ IF parsed_result.status = "success"
                   THEN /\ session_active' = TRUE
                        /\ current_platform' = <<CleanPlatform(op.clean_args)>>
                   ELSE UNCHANGED <<session_active, current_platform>>
                /\ Return(parsed_result)
    /\ UNCHANGED <<last_element_id, element_store, op, fingerprint_before, candidates, trials>>

\* quit_session, up to the await of call_tool
QuitSession ==
    /\ pc = "idle"
    /\ op' = [name |-> "quit_session"]
    /\ Start(Req("appium_quit_session", "", NoVal, None, ""), "quit_session")
    /\ UNCHANGED client

\* quit_session, from the response on
QuitSessionDone ==
    /\ At("quit_session")
    /\ IF resp.kind = "raise"
       THEN Raise /\ UNCHANGED <<session_active, current_platform, element_store>>
       ELSE /\ session_active' = FALSE
            /\ current_platform' = NonePlatform
            /\ element_store' = [k \in {} |-> None]
            /\ Return(parse_tool_result(resp))
    /\ UNCHANGED <<last_element_id, op, fingerprint_before, candidates, trials>>

-----------------------------------------------------------------------------
(* Reading text, with stale-element recovery.                              *)

\* The placeholder ids smart_tap_element, smart_get_text and
\* smart_input_text take for "the last found element".
invalid_patterns ==
    {"element_id_from_previous_step", "previous_element_id", "found_element_id",
     "current_element_id", "last_element_id", "element_from_previous_step",
     "previous_element", None, "", "null"}

\* The element ids a caller passes.
GivenIds == {None, "", "last_element_id", "e2"}

\* The element id a call acts on, were the given id used as it is.
ResolveElementIdVerbatim(element_id) == element_id

\* The element id a call acts on.
ResolveElementId(element_id) ==
    IF element_id \in invalid_patterns \/ Falsy(element_id) THEN last_element_id ELSE element_id

\* The stale-element condition of smart_get_text: an error whose message
\* holds the text "StaleElementReferenceException".
IsStale(parsed_result) ==
    /\ parsed_result.status = "error"
    /\ parsed_result.message \in {"Failed to retrieve text: StaleElementReferenceException"}

xpath_strategies ==
    <<"//XCUIElementTypeCell[@name='Name']//XCUIElementTypeStaticText[2]",
      "//XCUIElementTypeStaticText[@name='Name']/following-sibling::XCUIElementTypeStaticText[1]",
      "//XCUIElementTypeCell[.//XCUIElementTypeStaticText[@name='Name']]//XCUIElementTypeStaticText[position()>1]",
      "//*[@name='Name']/..//XCUIElementTypeStaticText[not(@name='Name')]">>

Trial(tier, strategy, value) == [tier |-> tier, strategy |-> strategy, value |-> value]

\* The error smart_get_text returns when the three recoveries failed.
StaleExhausted ==
    [Error("Element became stale and recovery strategies failed")
        EXCEPT !.error_type = "StaleElementReferenceException", !.recovery_attempted = TRUE]

\* smart_get_text, up to the await of appium_get_text
GetTextStart ==
    /\ pc = "idle"
    /\ \E given \in GivenIds :
          LET element_id == ResolveElementId(given)
          IN  /\ op' = [name |-> "get_text", given |-> given, element_id |-> element_id]
              /\ IF Falsy(element_id)
                 THEN ReturnNow(Error("No element ID available for get text"))
                 ELSE Start(GetTextReq(element_id), "get_text")
    /\ UNCHANGED client

\* smart_get_text from the response on: a stale error starts
\* recover_name_cell_text, anything else is returned.
GetTextDone ==
    /\ At("get_text")
    /\ IF resp.kind = "raise"
       THEN Raise
       ELSE IF IsStale(parse_tool_result(resp))
            THEN Send(FindReq("accessibility_id", Val("Name", <<>>)), "", "name_cell_find")
            ELSE Return(parse_tool_result(resp))
    /\ UNCHANGED <<client, op, fingerprint_before, candidates, trials>>

\* Strategy 1 did not succeed: recover_text_via_xpath begins.
StartXPathRecovery ==
    /\ trials' = [i \in DOMAIN xpath_strategies |-> Trial("", "xpath", Val(xpath_strategies[i], <<>>))]
    /\ Send(FindReq("xpath", Val(xpath_strategies[1], <<>>)), "", "xpath_find")

\* recover_name_cell_text, after its find
RecoverNameCellFound ==
    /\ At("name_cell_find")
    /\ IF resp.kind # "raise" /\ parse_tool_result(resp).status = "success"
       THEN Send(GetTextReq(parse_tool_result(resp).element_id), "", "name_cell_text")
            /\ UNCHANGED trials
       ELSE StartXPathRecovery
    /\ UNCHANGED <<client, op, fingerprint_before, candidates>>

\* recover_name_cell_text with its result ignored: strategy 2 always follows.
RecoverNameCellTextIgnored ==
    /\ At("name_cell_text")
    /\ StartXPathRecovery
    /\ UNCHANGED <<client, op, fingerprint_before, candidates>>

\* recover_name_cell_text, after its text read
RecoverNameCellText ==
    /\ At("name_cell_text")
    /\ LET parsed_text == parse_tool_result(resp)
       IN  IF /\ resp.kind # "raise"
              /\ parsed_text.status = "success"
              /\ parsed_text.text # <<>>
              /\ Strip(parsed_text.text) # NameText
           THEN Return(Result("success", None, parsed_text.text, EmptyMarkup, "name_cell_recovery"))
                /\ UNCHANGED trials
           ELSE StartXPathRecovery
    /\ UNCHANGED <<client, op, fingerprint_before, candidates>>

\* The xpath in hand did not succeed: the next one, or
\* recover_text_via_page_source after the last.
NextXPath ==
    /\ trials' = Tail(trials)
    /\ IF Tail(trials) # <<>>
       THEN Send(FindReq("xpath", Tail(trials)[1].value), "", "xpath_find")
       ELSE Send(PageSourceReq(FALSE), "", "page_source_recovery")

\* recover_text_via_xpath, after a find
RecoverXPathFound ==
    /\ At("xpath_find")
    /\ IF resp.kind # "raise" /\ parse_tool_result(resp).status = "success"
       THEN Send(GetTextReq(parse_tool_result(resp).element_id), "", "xpath_text")
            /\ UNCHANGED trials
       ELSE NextXPath
    /\ UNCHANGED <<client, op, fingerprint_before, candidates>>

\* recover_text_via_xpath, after a text read
RecoverXPathText ==
    /\ At("xpath_text")
    /\ LET parsed_text == parse_tool_result(resp)
       IN  IF /\ resp.kind # "raise"
              /\ parsed_text.status = "success"
              /\ parsed_text.text # <<>>
              /\ Strip(parsed_text.text) # <<>>
              /\ Strip(parsed_text.text) # NameText
           THEN Return(Result("success", None, parsed_text.text, EmptyMarkup, "xpath_recovery"))
                /\ UNCHANGED trials
           ELSE NextXPath
    /\ UNCHANGED <<client, op, fingerprint_before, candidates>>

\* The groups the patterns of recover_text_via_page_source accept: found,
\* and not the label itself.
MeaningfulMatches(page_source) ==
    SelectSeq(page_source.rx, LAMBDA found_text : found_text # <<>> /\ found_text # NameText)

\* The end of the recovery with the error of strategy 3 passed through.
RecoverPageSourcePlain ==
    /\ At("page_source_recovery")
    /\ LET parsed_page == parse_tool_result(resp)
       IN  IF /\ resp.kind # "raise"
              /\ parsed_page.status = "success"
              /\ MeaningfulMatches(parsed_page.page_source) # <<>>
           THEN Return(Result("success", None, MeaningfulMatches(parsed_page.page_source)[1],
                              EmptyMarkup, "page_source_recovery"))
           ELSE Return(Error("Page source parsing failed"))
    /\ UNCHANGED <<client, op, fingerprint_before, candidates, trials>>

\* recover_text_via_page_source after its page-source read, and the end of
\* the recovery in smart_get_text
RecoverPageSource ==
    /\ At("page_source_recovery")
    /\ LET parsed_page == parse_tool_result(resp)
       IN  IF /\ resp.kind # "raise"
              /\ parsed_page.status = "success"
              /\ MeaningfulMatches(parsed_page.page_source) # <<>>
           THEN Return(Result("success", None, MeaningfulMatches(parsed_page.page_source)[1],
                              EmptyMarkup, "page_source_recovery"))
           ELSE Return(StaleExhausted)
    /\ UNCHANGED <<client, op, fingerprint_before, candidates, trials>>

-----------------------------------------------------------------------------
(* Element resolution.                                                     *)

\* The calls of smart_find_element: strategy, value, description (empty: none).
FindInputs ==
    {<<"accessibility_id", <<"O", "K", " ">>, <<>>>>,
     <<"xpath", <<"O", "K", " ">>, <<"d">>>>,
     <<"accessibility_id", <<"L", "o", "g", "i", "n">>, <<>>>>,
     <<"id", <<"z">>, <<>>>>}

max_elements == 50

has_useful_info(element_info) ==
    \/ element_info.text # <<>>
    \/ element_info.accessibility_id # <<>>
    \/ element_info.id # <<>>
    \/ element_info.label # <<>>
    \/ element_info.tag \notin
          {"hierarchy", "android.widget.FrameLayout", "XCUIElementTypeApplication",
           "XCUIElementTypeWindow", "XCUIElementTypeOther"}

\* The elements enhanced_extract_selectors collects from parsed markup: the
\* nodes in document order that hold useful information, max_elements at most.
traverse_element(nodes) ==
    LET useful == SelectSeq(nodes, has_useful_info)
    IN  SubSeq(useful, 1, IF Len(useful) < max_elements THEN Len(useful) ELSE max_elements)

\* enhanced_extract_selectors that takes markup that is empty or cannot be
\* parsed for a page without elements.
enhanced_extract_selectors_lenient(parsed_page_source) ==
    IF parsed_page_source.status # "success"
    THEN [status |-> "error", elements |-> <<>>]
    ELSE [status |-> "success", elements |-> traverse_element(parsed_page_source.page_source.nodes)]

\* enhanced_extract_selectors, from the page-source result on
enhanced_extract_selectors(parsed_page_source) ==
    IF parsed_page_source.status # "success"
    THEN [status |-> "error", elements |-> <<>>]
    ELSE IF parsed_page_source.page_source.kind \in {"empty", "garbage"}
         THEN [status |-> "error", elements |-> <<>>]
         ELSE [status |-> "success", elements |-> traverse_element(parsed_page_source.page_source.nodes)]

\* The match tier of one element, "" when it is no candidate.
match_type(element, target_lower) ==
    LET element_text     == Strip(Lower(element.text))
        accessibility_id == Strip(Lower(element.accessibility_id))
        label            == Strip(Lower(element.label))
    IN  IF element_text = target_lower \/ accessibility_id = target_lower \/ label = target_lower
        THEN "exact"
        ELSE IF \/ Contains(element_text, target_lower)
                \/ Contains(accessibility_id, target_lower)
                \/ Contains(label, target_lower)
             THEN "contains"
             ELSE ""

\* _find_element_candidates
find_element_candidates(elements, target_text) ==
    LET target_lower == Strip(Lower(target_text))
        tiers == [i \in DOMAIN elements |->
                    [tier |-> match_type(elements[i], target_lower), element |-> elements[i]]]
    IN  SelectSeq(tiers, LAMBDA c : c.tier # "")

\* The locator strategies _try_element_candidates tries for one candidate.
strategiesXPathFirst(c) ==
    SelectSeq(<<Trial(c.tier, "xpath", Val("//{}", <<<<c.element.tag>>>>)),
                Trial(c.tier, "accessibility_id", Val("{}", <<c.element.accessibility_id>>)),
                Trial(c.tier, "id", Val("{}", <<c.element.id>>)),
                Trial(c.tier, "class_name", Val("{}", <<c.element.class_name>>))>>,
              LAMBDA t : Strip(t.value.args[1]) # <<>>)

strategies(c) ==
    SelectSeq(<<Trial(c.tier, "accessibility_id", Val("{}", <<c.element.accessibility_id>>)),
                Trial(c.tier, "xpath", Val("//{}", <<<<c.element.tag>>>>)),
                Trial(c.tier, "id", Val("{}", <<c.element.id>>)),
                Trial(c.tier, "class_name", Val("{}", <<c.element.class_name>>))>>,
              LAMBDA t : Strip(t.value.args[1]) # <<>>)

\* The attempts of _try_element_candidates, in the order of its two loops.
RECURSIVE try_element_candidates(_)
try_element_candidates(cs) ==
    IF cs = <<>> THEN <<>> ELSE strategies(Head(cs)) \o try_element_candidates(Tail(cs))

AnyKeyword(keywords, target_lower) ==
    \E i \in DOMAIN keywords : Contains(target_lower, keywords[i])

username_keywords ==
    <<<<"u", "s", "e", "r", "n", "a", "m", "e">>,
      <<"u", "s", "e", "r">>,
      <<"e", "m", "a", "i", "l">>,
      <<"l", "o", "g", "i", "n">>,
      <<"a", "c", "c", "o", "u", "n", "t">>,
      <<"u", "s", "e", "r", "i", "d">>,
      <<"u", "s", "e", "r", "_", "n", "a", "m", "e">>,
      <<"u", "s", "e", "r", "-", "n", "a", "m", "e">>>>

password_keywords ==
    <<<<"p", "a", "s", "s", "w", "o", "r", "d">>,
      <<"p", "a", "s", "s">>,
      <<"p", "w", "d">>,
      <<"p", "a", "s", "s", "c", "o", "d", "e">>,
      <<"p", "a", "s", "s", "p", "h", "r", "a", "s", "e">>>>

button_keywords ==
    <<<<"l", "o", "g", "i", "n">>,
      <<"s", "u", "b", "m", "i", "t">>,
      <<"s", "i", "g", "n", " ", "i", "n">>,
      <<"l", "o", "g", " ", "i", "n">>,
      <<"c", "o", "n", "t", "i", "n", "u", "e">>,
      <<"n", "e", "x", "t">>,
      <<"e", "n", "t", "e", "r">>,
      <<"g", "o">>,
      <<"s", "e", "n", "d">>,
      <<"c", "o", "n", "f", "i", "r", "m">>>>

link_keywords ==
    <<<<"l", "o", "g", "o", "u", "t">>,
      <<"s", "i", "g", "n", " ", "o", "u", "t">>,
      <<"l", "o", "g", " ", "o", "u", "t">>,
      <<"e", "x", "i", "t">>,
      <<"q", "u", "i", "t">>,
      <<"h", "o", "m", "e">>,
      <<"b", "a", "c", "k">>,
      <<"m", "e", "n", "u">>,
      <<"s", "e", "t", "t", "i", "n", "g", "s">>>>

menu_keywords ==
    <<<<"m", "e", "n", "u">>,
      <<"h", "a", "m", "b", "u", "r", "g", "e", "r">>,
      <<"b", "u", "r", "g", "e", "r">>,
      <<"n", "a", "v">>,
      <<"n", "a", "v", "i", "g", "a", "t", "i", "o", "n">>,
      <<"t", "o", "g", "g", "l", "e">>>>

username_strategies(target_lower, target_text) ==
  <<
    <<"id", Val("username", <<>>)>>,
    <<"id", Val("user", <<>>)>>,
    <<"id", Val("email", <<>>)>>,
    <<"id", Val("login", <<>>)>>,
    <<"id", Val("user-name", <<>>)>>,
    <<"id", Val("user_name", <<>>)>>,
    <<"id", Val("userid", <<>>)>>,
    <<"id", Val("account", <<>>)>>,
    <<"name", Val("username", <<>>)>>,
    <<"name", Val("user", <<>>)>>,
    <<"name", Val("email", <<>>)>>,
    <<"name", Val("login", <<>>)>>,
    <<"name", Val("user-name", <<>>)>>,
    <<"name", Val("user_name", <<>>)>>,
    <<"name", Val("userid", <<>>)>>,
    <<"xpath", Val("//input[@type='text'][1]", <<>>)>>,
    <<"xpath", Val("//input[@type='email']", <<>>)>>,
    <<"xpath", Val("//input[contains(@placeholder, 'username') or contains(@placeholder, 'user') or contains(@placeholder, 'email') or contains(@placeholder, 'login')]", <<>>)>>,
    <<"xpath", Val("//input[contains(@data-test, 'username') or contains(@data-test, 'user') or contains(@data-test, 'login')]", <<>>)>>,
    <<"xpath", Val("//input[contains(@data-testid, 'username') or contains(@data-testid, 'user') or contains(@data-testid, 'login')]", <<>>)>>,
    <<"xpath", Val("//input[contains(@class, 'username') or contains(@class, 'user') or contains(@class, 'email') or contains(@class, 'login')]", <<>>)>>
  >>

password_strategies(target_lower, target_text) ==
  <<
    <<"id", Val("password", <<>>)>>,
    <<"id", Val("pass", <<>>)>>,
    <<"id", Val("pwd", <<>>)>>,
    <<"id", Val("passcode", <<>>)>>,
    <<"name", Val("password", <<>>)>>,
    <<"name", Val("pass", <<>>)>>,
    <<"name", Val("pwd", <<>>)>>,
    <<"name", Val("passcode", <<>>)>>,
    <<"xpath", Val("//input[@type='password']", <<>>)>>,
    <<"xpath", Val("//input[contains(@placeholder, 'password') or contains(@placeholder, 'pass')]", <<>>)>>,
    <<"xpath", Val("//input[contains(@data-test, 'password') or contains(@data-test, 'pass')]", <<>>)>>,
    <<"xpath", Val("//input[contains(@data-testid, 'password') or contains(@data-testid, 'pass')]", <<>>)>>,
    <<"xpath", Val("//input[contains(@class, 'password') or contains(@class, 'pass')]", <<>>)>>
  >>

button_strategies(target_lower, target_text) ==
  <<
    <<"id", Val("login", <<>>)>>,
    <<"name", Val("login", <<>>)>>,
    <<"id", Val("submit", <<>>)>>,
    <<"name", Val("submit", <<>>)>>,
    <<"id", Val("signin", <<>>)>>,
    <<"name", Val("signin", <<>>)>>,
    <<"id", Val("login-button", <<>>)>>,
    <<"name", Val("login-button", <<>>)>>,
    <<"id", Val("submit-button", <<>>)>>,
    <<"name", Val("submit-button", <<>>)>>,
    <<"id", Val("continue", <<>>)>>,
    <<"name", Val("continue", <<>>)>>,
    <<"id", Val("next", <<>>)>>,
    <<"name", Val("next", <<>>)>>,
    <<"id", Val("send", <<>>)>>,
    <<"name", Val("send", <<>>)>>,
    <<"xpath", Val("//input[@type='submit']", <<>>)>>,
    <<"xpath", Val("//button[@type='submit']", <<>>)>>,
    <<"xpath", Val("//input[@value='{}' or contains(@value, '{}')]", <<target_text, target_lower>>)>>,
    <<"xpath", Val("//button[text()='{}' or contains(text(), '{}')]", <<target_text, target_text>>)>>,
    <<"xpath", Val("//button[contains(@class, 'btn') or contains(@class, 'button')]", <<>>)>>,
    <<"xpath", Val("//button[contains(@class, '{}')]", <<target_lower>>)>>,
    <<"xpath", Val("//button[contains(@data-test, '{}') or contains(@data-testid, '{}')]", <<target_lower, target_lower>>)>>,
    <<"xpath", Val("//input[contains(@data-test, '{}') or contains(@data-testid, '{}')]", <<target_lower, target_lower>>)>>
  >>

link_strategies(target_lower, target_text) ==
  <<
    <<"link text", Val("{}", <<target_text>>)>>,
    <<"partial link text", Val("{}", <<target_text>>)>>,
    <<"id", Val("{}", <<target_lower>>)>>,
    <<"id", Val("{}", <<Replace(target_lower, " ", "-")>>)>>,
    <<"id", Val("{}", <<Replace(target_lower, " ", "_")>>)>>,
    <<"xpath", Val("//a[contains(text(), '{}') or @title='{}']", <<target_text, target_text>>)>>,
    <<"xpath", Val("//a[contains(@href, '{}') or contains(@class, '{}')]", <<target_lower, target_lower>>)>>,
    <<"xpath", Val("//a[contains(@data-test, '{}') or contains(@data-testid, '{}')]", <<target_lower, target_lower>>)>>
  >>

menu_strategies(target_lower, target_text) ==
  <<
    <<"id", Val("menu", <<>>)>>,
    <<"id", Val("nav", <<>>)>>,
    <<"id", Val("hamburger", <<>>)>>,
    <<"id", Val("burger", <<>>)>>,
    <<"id", Val("toggle", <<>>)>>,
    <<"id", Val("menu-button", <<>>)>>,
    <<"id", Val("nav-button", <<>>)>>,
    <<"id", Val("menu-toggle", <<>>)>>,
    <<"xpath", Val("//button[contains(@class, 'menu') or contains(@class, 'burger') or contains(@class, 'hamburger')]", <<>>)>>,
    <<"xpath", Val("//div[contains(@class, 'menu') or contains(@class, 'burger') or contains(@class, 'hamburger')]", <<>>)>>,
    <<"xpath", Val("//button[contains(@class, 'icon') and (contains(@class, 'menu') or contains(@aria-label, 'menu'))]", <<>>)>>,
    <<"xpath", Val("//button[@aria-label='Menu' or @aria-label='Open menu' or contains(@aria-label, 'menu')]", <<>>)>>
  >>

generic_strategies(target_lower, target_text) ==
  <<
    <<"id", Val("{}", <<target_lower>>)>>,
    <<"id", Val("{}", <<Replace(target_lower, " ", "-")>>)>>,
    <<"id", Val("{}", <<Replace(target_lower, " ", "_")>>)>>,
    <<"name", Val("{}", <<target_lower>>)>>,
    <<"name", Val("{}", <<Replace(target_lower, " ", "-")>>)>>,
    <<"name", Val("{}", <<Replace(target_lower, " ", "_")>>)>>,
    <<"xpath", Val("//*[contains(@class, '{}') or contains(@class, '{}')]", <<target_lower, Replace(target_lower, " ", "-")>>)>>,
    <<"xpath", Val("//*[contains(@data-test, '{}') or contains(@data-testid, '{}')]", <<target_lower, target_lower>>)>>,
    <<"xpath", Val("//*[contains(text(), '{}') or @title='{}' or @alt='{}']", <<target_text, target_text, target_text>>)>>
  >>

\* _build_smart_strategies
build_smart_strategies(target_lower, target_text) ==
    (IF AnyKeyword(username_keywords, target_lower)
        THEN username_strategies(target_lower, target_text) ELSE <<>>)
    \o (IF AnyKeyword(password_keywords, target_lower)
        THEN password_strategies(target_lower, target_text) ELSE <<>>)
    \o (IF AnyKeyword(button_keywords, target_lower)
        THEN button_strategies(target_lower, target_text) ELSE <<>>)
    \o (IF AnyKeyword(link_keywords, target_lower)
        THEN link_strategies(target_lower, target_text) ELSE <<>>)
    \o (IF AnyKeyword(menu_keywords, target_lower)
        THEN menu_strategies(target_lower, target_text)
        ELSE generic_strategies(target_lower, target_text))

\* _extract_text_from_xpath_or_value, step 1: a value without any of the
\* characters @ / [ ] ( ) " ' is returned stripped (the values of FindInputs
\* hold none of them).
extract_text_from_xpath_or_value(value) == Strip(value)

\* The (strategy, value) list _find_web_element tries, in order.
web_strategies(strategy, value) ==
    LET target_text  == extract_text_from_xpath_or_value(value)
        target_lower == Strip(Lower(target_text))
        pairs ==
            (IF strategy # "" /\ value # <<>> /\ strategy # "xpath"
                THEN <<<<strategy, Val("{}", <<value>>)>>>> ELSE <<>>)
            \o build_smart_strategies(target_lower, target_text)
            \o <<<<"link text", Val("{}", <<target_text>>)>>,
                 <<"partial link text", Val("{}", <<target_text>>)>>,
                 <<"xpath", Val("//a[contains(text(), '{}')]", <<target_text>>)>>,
                 <<"xpath", Val("//*[contains(text(), '{}')]", <<target_text>>)>>,
                 <<"xpath", Val("{}", <<value>>)>>>>
    IN  [i \in DOMAIN pairs |-> Trial("", pairs[i][1], pairs[i][2])]

\* _is_web_context, from the response on: any failure is "not web".
is_web_context(r) ==
    /\ r.kind # "raise"
    /\ parse_tool_result(r).status = "success"
    /\ parse_tool_result(r).page_source.kind = "web"

\* A find-element response that names an element.
Found(r) ==
    /\ r.kind # "raise"
    /\ parse_tool_result(r).status = "success"
    /\ ~Falsy(parse_tool_result(r).element_id)

\* smart_find_element, up to the await inside _is_web_context
FindStart ==
    /\ pc = "idle"
    /\ \E in \in FindInputs :
          /\ op' = [name |-> "find_element", strategy |-> in[1], value |-> in[2],
                    description |-> in[3], target_text |-> in[2]]
          /\ Start(PageSourceReq(FALSE), "web_check")
    /\ UNCHANGED client

\* smart_find_element with the web-context test dropped: the direct attempt
\* follows whatever the page source holds.
WebCheckedIgnored ==
    /\ At("web_check")
    /\ Send(FindReq(op.strategy, Val("{}", <<op.value>>)), "", "direct_find")
    /\ UNCHANGED <<client, op, fingerprint_before, candidates, trials>>

\* smart_find_element after _is_web_context: _find_web_element up to its
\* first attempt in a web context, the direct attempt otherwise.
WebChecked ==
    /\ At("web_check")
    /\ IF is_web_context(resp)
       THEN /\ trials' = web_strategies(op.strategy, op.value)
            /\ op' = [op EXCEPT !.target_text = extract_text_from_xpath_or_value(op.value)]
            /\ Send(FindReq(web_strategies(op.strategy, op.value)[1].strategy,
                            web_strategies(op.strategy, op.value)[1].value), "", "web_try")
       ELSE /\ Send(FindReq(op.strategy, Val("{}", <<op.value>>)), "", "direct_find")
            /\ UNCHANGED <<trials, op>>
    /\ UNCHANGED <<client, fingerprint_before, candidates>>

\* smart_find_element after the direct attempt: found, or
\* find_element_with_inspection up to the await of the page source.
DirectFound ==
    /\ At("direct_find")
    /\ IF resp.kind = "raise"
       THEN Raise /\ UNCHANGED <<last_element_id, element_store>>
       ELSE IF Found(resp)
            THEN /\ last_element_id' = parse_tool_result(resp).element_id
                 /\ element_store' =
                        LET key == IF op.description # <<>> THEN op.description ELSE op.value
                        IN  [k \in DOMAIN element_store \cup {key} |->
                                IF k = key THEN parse_tool_result(resp).element_id
                                ELSE element_store[k]]
                 /\ Return(parse_tool_result(resp))
            ELSE /\ Send(PageSourceReq(TRUE), "", "inspect")
                 /\ UNCHANGED <<last_element_id, element_store>>
    /\ UNCHANGED <<session_active, current_platform, op, fingerprint_before, candidates, trials>>

\* find_element_with_inspection from the page source on, up to the first
\* attempt of _try_element_candidates.
Inspected ==
    /\ At("inspect")
    /\ IF resp.kind = "raise"
       THEN Raise /\ UNCHANGED <<candidates, trials>>
       ELSE LET parsed_selectors == enhanced_extract_selectors(parse_tool_result(resp))
                found == find_element_candidates(parsed_selectors.elements, op.target_text)
            IN  IF parsed_selectors.status # "success"
                THEN Return(Error("Failed to inspect page")) /\ UNCHANGED <<candidates, trials>>
                ELSE IF found = <<>>
                     THEN Return(Error("Element not found")) /\ UNCHANGED <<candidates, trials>>
                     ELSE /\ candidates' = found
                          /\ trials' = try_element_candidates(found)
                          /\ Send(FindReq(try_element_candidates(found)[1].strategy,
                                          try_element_candidates(found)[1].value),
                                  try_element_candidates(found)[1].tier, "candidate_try")
    /\ UNCHANGED <<client, op, fingerprint_before>>

\* _try_element_candidates, after one attempt, were the element found not
\* recorded as the last one.
CandidateTriedUnrecorded ==
    /\ At("candidate_try")
    /\ IF Found(resp)
       THEN /\ Return(parse_tool_result(resp))
            /\ UNCHANGED trials
       ELSE /\ trials' = Tail(trials)
            /\ IF Tail(trials) = <<>>
               THEN Return(Error("Could not find element with any strategy"))
               ELSE Send(FindReq(Tail(trials)[1].strategy, Tail(trials)[1].value),
                         Tail(trials)[1].tier, "candidate_try")
    /\ UNCHANGED <<client, op, fingerprint_before, candidates>>

\* _try_element_candidates, after one attempt
CandidateTried ==
    /\ At("candidate_try")
    /\ IF Found(resp)
       THEN /\ last_element_id' = parse_tool_result(resp).element_id
            /\ Return(parse_tool_result(resp))
            /\ UNCHANGED trials
       ELSE /\ trials' = Tail(trials)
            /\ IF Tail(trials) = <<>>
               THEN Return(Error("Could not find element with any strategy"))
               ELSE Send(FindReq(Tail(trials)[1].strategy, Tail(trials)[1].value),
                         Tail(trials)[1].tier, "candidate_try")
            /\ UNCHANGED last_element_id
    /\ UNCHANGED <<session_active, current_platform, element_store, op, fingerprint_before, candidates>>

\* _find_web_element, after one attempt.  After the last one the method
\* calls self._find_web_element_by_inspection, which the class does not
\* define: the call ends in an AttributeError.
WebStrategyTried ==
    /\ At("web_try")
    /\ IF Found(resp)
       THEN /\ last_element_id' = parse_tool_result(resp).element_id
            /\ Return(parse_tool_result(resp))
            /\ UNCHANGED trials
       ELSE /\ trials' = Tail(trials)
            /\ IF Tail(trials) = <<>>
               THEN Raise
               ELSE Send(FindReq(Tail(trials)[1].strategy, Tail(trials)[1].value), "", "web_try")
            /\ UNCHANGED last_element_id
    /\ UNCHANGED <<session_active, current_platform, element_store, op, fingerprint_before, candidates>>

-----------------------------------------------------------------------------
(* Tapping, with verification.                                             *)

Abs(n, m) == IF n < m THEN m - n ELSE n - m

\* _get_page_fingerprint from the response on: {} unless the page source was
\* read.  source_hash stands for the page source it digests.
page_fingerprint(r) ==
    IF r.kind # "raise" /\ parse_tool_result(r).status = "success"
    THEN LET page_source == parse_tool_result(r).page_source
         IN  [empty |-> FALSE,
              source_hash |-> page_source,
              element_count |-> Len(page_source.nodes),
              form_count |-> page_source.forms,
              button_count |-> page_source.buttons,
              title |-> page_source.title,
              unique_ids |-> {page_source.nodes[i].id : i \in DOMAIN page_source.nodes} \ {<<>>},
              text_snippets |-> {t \in {Strip(page_source.nodes[i].text) : i \in DOMAIN page_source.nodes} :
                                    Len(t) > 2}]
    ELSE NoFingerprint

\* _did_page_change, were a fingerprint that could not be read to count as
\* a change.
did_page_change_unread(before, after) ==
    IF before.empty \/ after.empty
    THEN TRUE
    ELSE before.source_hash # after.source_hash

\* _did_page_change, were Check 6 to look at the new ids only.
did_page_change_new_ids(before, after) ==
    IF before.empty \/ after.empty
    THEN FALSE
    ELSE \/ before.source_hash # after.source_hash
         \/ /\ before.element_count > 0
            /\ 10 * Abs(before.element_count, after.element_count) > before.element_count
         \/ before.title # after.title
         \/ before.form_count # after.form_count
         \/ Abs(before.button_count, after.button_count) > 2
         \/ Cardinality(after.unique_ids \ before.unique_ids) > 2
         \/ Cardinality((before.text_snippets \ after.text_snippets)
                        \cup (after.text_snippets \ before.text_snippets)) > 5

\* _did_page_change, were Check 3 left out.
did_page_change_no_title(before, after) ==
    IF before.empty \/ after.empty
    THEN FALSE
    ELSE \/ before.source_hash # after.source_hash
         \/ /\ before.element_count > 0
            /\ 10 * Abs(before.element_count, after.element_count) > before.element_count
         \/ before.form_count # after.form_count
         \/ Abs(before.button_count, after.button_count) > 2
         \/ Cardinality(after.unique_ids \ before.unique_ids) > 2
         \/ Cardinality(before.unique_ids \ after.unique_ids) > 2
         \/ Cardinality((before.text_snippets \ after.text_snippets)
                        \cup (after.text_snippets \ before.text_snippets)) > 5

\* _did_page_change
did_page_change(before, after) ==
    IF before.empty \/ after.empty
    THEN FALSE
    ELSE \/ before.source_hash # after.source_hash
         \/ /\ before.element_count > 0
            /\ 10 * Abs(before.element_count, after.element_count) > before.element_count
         \/ before.title # after.title
         \/ before.form_count # after.form_count
         \/ Abs(before.button_count, after.button_count) > 2
         \/ Cardinality(after.unique_ids \ before.unique_ids) > 2
         \/ Cardinality(before.unique_ids \ after.unique_ids) > 2
         \/ Cardinality((before.text_snippets \ after.text_snippets)
                        \cup (after.text_snippets \ before.text_snippets)) > 5

\* smart_tap_element with the tap sent before any fingerprint is read.
TapStartTapFirst ==
    /\ pc = "idle"
    /\ \E given \in GivenIds :
          LET element_id == ResolveElementId(given)
          IN  /\ op' = [name |-> "tap", given |-> given, element_id |-> element_id]
              /\ IF Falsy(element_id)
                 THEN ReturnNow(Error("No element ID available for tap"))
                 ELSE Start(TapReq(element_id), "tap_tap")
    /\ UNCHANGED client

\* smart_tap_element, up to the await inside the first _get_page_fingerprint
TapStart ==
    /\ pc = "idle"
    /\ \E given \in GivenIds :
          LET element_id == ResolveElementId(given)
          IN  /\ op' = [name |-> "tap", given |-> given, element_id |-> element_id]
              /\ IF Falsy(element_id)
                 THEN ReturnNow(Error("No element ID available for tap"))
                 ELSE Start(PageSourceReq(FALSE), "tap_fp_before")
    /\ UNCHANGED client

\* smart_tap_element: the fingerprint is taken and the tap is sent
TapFingerprinted ==
    /\ At("tap_fp_before")
    /\ fingerprint_before' = page_fingerprint(resp)
    /\ Send(TapReq(op.element_id), "", "tap_tap")
    /\ UNCHANGED <<client, op, candidates, trials>>

\* smart_tap_element with a failed tap verified like a successful one.
TapTappedUnchecked ==
    /\ At("tap_tap")
    /\ IF resp.kind = "raise"
       THEN Raise
       ELSE Send(PageSourceReq(FALSE), "", "tap_fp_after")
    /\ UNCHANGED <<client, op, fingerprint_before, candidates, trials>>

\* smart_tap_element after the tap: a failure is returned as it came
TapTapped ==
    /\ At("tap_tap")
    /\ IF resp.kind = "raise"
       THEN Raise
       ELSE IF parse_tool_result(resp).status # "success"
            THEN Return(parse_tool_result(resp))
            ELSE Send(PageSourceReq(FALSE), "", "tap_fp_after")
    /\ UNCHANGED <<client, op, fingerprint_before, candidates, trials>>

\* smart_tap_element after the second fingerprint: done, or
\* _try_alternative_tap_methods up to the await inside _is_web_context
TapVerified ==
    /\ At("tap_fp_after")
    /\ IF did_page_change(fingerprint_before, page_fingerprint(resp))
       THEN Return(Success("Standard tap successful"))
       ELSE Send(PageSourceReq(FALSE), "web_check", "alt_web_check")
    /\ UNCHANGED <<client, op, fingerprint_before, candidates, trials>>

\* Method 3 begins.
ScrollAndTap == Send(Req("appium_scroll", "", NoVal, None, "up"), "scroll_tap", "alt_scroll")

\* Method 4 and the end of _try_alternative_tap_methods:
\* _find_and_tap_alternatives calls self._get_element_info, which the class
\* does not define; the AttributeError is caught by the method's try.
find_and_tap_alternatives == Return(Error("All alternative tap methods failed"))

\* Method 1: in a web context _try_javascript_alternatives calls
\* self._try_javascript_click, which the class does not define, and the
\* AttributeError leaves smart_tap_element; otherwise Method 2 begins.
AltWebChecked ==
    /\ At("alt_web_check")
    /\ IF is_web_context(resp)
       THEN Raise
       ELSE Send(TapReq(op.element_id), "double_tap", "alt_dbl1")
    /\ UNCHANGED <<client, op, fingerprint_before, candidates, trials>>

\* Method 2 after its first tap: the result is not looked at
AltDoubleTapFirst ==
    /\ At("alt_dbl1")
    /\ IF resp.kind = "raise"
       THEN ScrollAndTap
       ELSE Send(TapReq(op.element_id), "double_tap", "alt_dbl2")
    /\ UNCHANGED <<client, op, fingerprint_before, candidates, trials>>

\* Method 2 after its second tap
AltDoubleTapSecond ==
    /\ At("alt_dbl2")
    /\ IF resp.kind # "raise" /\ parse_tool_result(resp).status = "success"
       THEN Send(PageSourceReq(FALSE), "double_tap", "alt_dbl_fp")
       ELSE ScrollAndTap
    /\ UNCHANGED <<client, op, fingerprint_before, candidates, trials>>

\* Method 2 with the verification ignored: Method 3 always follows.
AltDoubleTapVerifiedIgnored ==
    /\ At("alt_dbl_fp")
    /\ ScrollAndTap
    /\ UNCHANGED <<client, op, fingerprint_before, candidates, trials>>

\* Method 2 after its fingerprint
AltDoubleTapVerified ==
    /\ At("alt_dbl_fp")
    /\ IF did_page_change(fingerprint_before, page_fingerprint(resp))
       THEN Return(Success("Double tap successful"))
       ELSE ScrollAndTap
    /\ UNCHANGED <<client, op, fingerprint_before, candidates, trials>>

\* Method 3 after the scroll: the result is not looked at
AltScrolled ==
    /\ At("alt_scroll")
    /\ IF resp.kind = "raise"
       THEN find_and_tap_alternatives
       ELSE Send(TapReq(op.element_id), "scroll_tap", "alt_scroll_tap")
    /\ UNCHANGED <<client, op, fingerprint_before, candidates, trials>>

\* Method 3 after its tap
AltScrollTapped ==
    /\ At("alt_scroll_tap")
    /\ IF resp.kind # "raise" /\ parse_tool_result(resp).status = "success"
       THEN Send(PageSourceReq(FALSE), "scroll_tap", "alt_scroll_fp")
       ELSE find_and_tap_alternatives
    /\ UNCHANGED <<client, op, fingerprint_before, candidates, trials>>

\* Method 3 after its fingerprint
AltScrollVerified ==
    /\ At("alt_scroll_fp")
    /\ IF did_page_change(fingerprint_before, page_fingerprint(resp))
       THEN Return(Success("Scroll and tap successful"))
       ELSE find_and_tap_alternatives
    /\ UNCHANGED <<client, op, fingerprint_before, candidates, trials>>

-----------------------------------------------------------------------------

\* send_request has returned nothing yet.
NoGot == [for |-> 0, outcome |-> "none", id |-> 0, result |-> 0]

\* The channel after EnhancedMCPClient.__init__: no request has been written.
TransportInit ==
    /\ request_id = 0
    /\ stdin = <<>>
    /\ stdout = <<>>
    /\ awaited = 0
    /\ got = NoGot

\* main before run_single_prompt: there are no blocks yet.
OrchestratorInit ==
    /\ json_blocks = <<>>
    /\ block_i = 1
    /\ handled = <<>>
    /\ backend_alive = TRUE
    /\ phase = "main"

\* appium_controller at import: no driver.
ControllerInit ==
    /\ active_session = [driver |-> 0, session_id |-> 0]
    /\ drivers = <<>>
    /\ controller_element_store = [e \in {} |-> 0]
    /\ screen = <<>>

\* EnhancedMCPClient.__init__
Init ==
    /\ session_active = FALSE
    /\ current_platform = NonePlatform
    /\ last_element_id = None
    /\ element_store = [k \in {} |-> None]
    /\ pc = "idle"
    /\ op = [name |-> ""]
    /\ fingerprint_before = NoFingerprint
    /\ candidates = <<>>
    /\ trials = <<>>
    /\ inflight = NoReq
    /\ resp = NoResp
    /\ log = <<>>
    /\ ret = NoRet
    /\ raised = FALSE
    /\ calls = 0
    /\ TransportInit
    /\ OrchestratorInit
    /\ ControllerInit

\* The last call of a batch begins with a session state the earlier calls
\* can have left: a session is active and an element may have been resolved.
InitResolved ==
    /\ session_active = TRUE
    /\ current_platform = <<Lower(<<"i", "O", "S">>)>>
    /\ last_element_id \in ElemIds \cup {None}
    /\ element_store = [k \in {} |-> None]
    /\ pc = "idle"
    /\ op = [name |-> ""]
    /\ fingerprint_before = NoFingerprint
    /\ candidates = <<>>
    /\ trials = <<>>
    /\ inflight = NoReq
    /\ resp = NoResp
    /\ log = <<>>
    /\ ret = NoRet
    /\ raised = FALSE
    /\ calls = MaxCalls - 1
    /\ TransportInit
    /\ OrchestratorInit
    /\ ControllerInit

Next ==
    \/ Respond
    \/ StartSession
    \/ StartSessionDone
    \/ QuitSession
    \/ QuitSessionDone
    \/ FindStart
    \/ WebChecked
    \/ DirectFound
    \/ Inspected
    \/ CandidateTried
    \/ WebStrategyTried

Spec == Init /\ [][Next]_vars

TextNext ==
    \/ Respond
    \/ GetTextStart
    \/ GetTextDone
    \/ RecoverNameCellFound
    \/ RecoverNameCellText
    \/ RecoverXPathFound
    \/ RecoverXPathText
    \/ RecoverPageSource

SpecText == InitResolved /\ [][TextNext]_vars

TapNext ==
    \/ Respond
    \/ TapStart
    \/ TapFingerprinted
    \/ TapTapped
    \/ TapVerified
    \/ AltWebChecked
    \/ AltDoubleTapFirst
    \/ AltDoubleTapSecond
    \/ AltDoubleTapVerified
    \/ AltScrolled
    \/ AltScrollTapped
    \/ AltScrollVerified

SpecTap == InitResolved /\ [][TapNext]_vars

-----------------------------------------------------------------------------
(* The tap against a driver whose app shows pages: a scroll or a click may  *)
(* bring up another page, and the page source read is that of the page the  *)
(* app shows.                                                               *)

\* The pages the app shows: a page with a button and a page with a text.
Pages == {m \in Markups : /\ m.kind = "native"
                          /\ Len(m.nodes) = 1
                          /\ m.nodes[1].tag \in {"Button", "Text"}}

\* The backend answers the request in flight: tap_element's click and
\* scroll's swipe leave the app on some page, get_page_source reads
\* driver.page_source.
DeviceResponds ==
    /\ inflight # NoReq
    /\ resp.kind = "none"
    /\ \E r \in Responses(inflight) :
          /\ (inflight.tool = "appium_get_page_source" /\ r.kind = "result"
                 /\ r.obj.status = "success")
                => r.obj.page_source = screen[Len(screen)]
          /\ resp' = r
    /\ IF inflight.tool \in {"appium_tap_element", "appium_scroll"}
       THEN \E page \in Pages : screen' = Append(screen, page)
       ELSE screen' = screen
    /\ log' = Append(log, Event("resp", inflight, ""))
    /\ inflight' = NoReq
    /\ UNCHANGED <<client, pc, op, fingerprint_before, candidates, trials, ret, raised, calls,
                   transport, orchestrator, active_session, drivers, controller_element_store>>

\* A client with a session, before a tap, and the app on one of its pages.
InitScreen ==
    /\ session_active = TRUE
    /\ current_platform = <<Lower(<<"i", "O", "S">>)>>
    /\ last_element_id \in ElemIds \cup {None}
    /\ element_store = [k \in {} |-> None]
    /\ pc = "idle"
    /\ op = [name |-> ""]
    /\ fingerprint_before = NoFingerprint
    /\ candidates = <<>>
    /\ trials = <<>>
    /\ inflight = NoReq
    /\ resp = NoResp
    /\ log = <<>>
    /\ ret = NoRet
    /\ raised = FALSE
    /\ calls = MaxCalls - 1
    /\ TransportInit
    /\ OrchestratorInit
    /\ active_session = [driver |-> 0, session_id |-> 0]
    /\ drivers = <<>>
    /\ controller_element_store = [e \in {} |-> 0]
    /\ screen \in {<<page>> : page \in Pages}

ScreenNext ==
    \/ DeviceResponds
    \/ TapStart
    \/ TapFingerprinted
    \/ TapTapped
    \/ TapVerified
    \/ AltWebChecked
    \/ AltDoubleTapFirst
    \/ AltDoubleTapSecond
    \/ AltDoubleTapVerified
    \/ AltScrolled
    \/ AltScrollTapped
    \/ AltScrollVerified

SpecScreen == InitScreen /\ [][ScreenNext]_vars

-----------------------------------------------------------------------------
(* scroll_to_find_element: the loop around smart_find_element.  op.i is the *)
(* loop's i, op.at is "find" while smart_find_element runs, "scroll" while  *)
(* the scroll is awaited and "done" once the method has returned.           *)

ScrollReq == Req("appium_scroll", "", NoVal, None, "down")

\* scroll_to_find_element, up to the first await of the first
\* smart_find_element.
ScrollToFindStart ==
    /\ pc = "idle"
    /\ op.name = ""
    /\ \E in \in FindInputs, max_scrolls \in 1..MaxScrolls :
          /\ op' = [name |-> "scroll_to_find_element", strategy |-> in[1], value |-> in[2],
                    description |-> <<>>, target_text |-> in[2],
                    max_scrolls |-> max_scrolls, i |-> 0, at |-> "find"]
          /\ Start(PageSourceReq(FALSE), "web_check")
    /\ UNCHANGED client

\* scroll_to_find_element after smart_find_element has returned: the
\* element is returned, or the scroll is sent.
ScrollFindAttempted ==
    /\ pc = "idle"
    /\ op.name = "scroll_to_find_element"
    /\ op.at = "find"
    /\ ~raised
    /\ IF ~Falsy(ret.element_id)
       THEN /\ op' = [op EXCEPT !.at = "done"]
            /\ UNCHANGED <<pc, inflight, resp, log>>
       ELSE /\ op' = [op EXCEPT !.at = "scroll"]
            /\ inflight' = ScrollReq
            /\ resp' = NoResp
            /\ log' = Append(log, Event("req", ScrollReq, ""))
            /\ pc' = "scroll_down"
    /\ UNCHANGED <<client, ret, raised, calls, fingerprint_before, candidates, trials,
                   transport, orchestrator, controller>>

\* scroll_to_find_element after the scroll: the next turn of the loop up
\* to the first await of its smart_find_element, or the end of the loop.
ScrollFindScrolled ==
    /\ At("scroll_down")
    /\ IF resp.kind = "raise"
       THEN Raise /\ UNCHANGED op
       ELSE IF op.i + 1 < op.max_scrolls
            THEN /\ op' = [op EXCEPT !.i = op.i + 1, !.at = "find", !.target_text = op.value]
                 /\ Send(PageSourceReq(FALSE), "", "web_check")
            ELSE /\ op' = [op EXCEPT !.at = "done"]
                 /\ Return(Error("Element not found after max_scrolls scrolls"))
    /\ UNCHANGED <<client, fingerprint_before, candidates, trials>>

ScrollFindNext ==
    \/ Respond
    \/ ScrollToFindStart
    \/ WebChecked
    \/ DirectFound
    \/ Inspected
    \/ CandidateTried
    \/ WebStrategyTried
    \/ ScrollFindAttempted
    \/ ScrollFindScrolled

SpecScrollFind == InitResolved /\ [][ScrollFindNext]_vars

\* A client driven through smart_tap_element or smart_get_text.
SpecAct == InitResolved /\ [][TapNext \/ TextNext]_vars

-----------------------------------------------------------------------------
(* The orchestrator's dispatch of the calls on an element.                 *)

\* The element ids a tool call carries: none, the empty text, two
\* placeholders, and ids as a backend gives them, with and without a colon
\* as their first character.
ToolIds == {None, "", "last_element_id", "null", "e2", ":w3"}

\* element_id.startswith(":"), for the ids of ToolIds.
StartsWithColon(element_id) ==
    LET text == CASE element_id = ":w3" -> <<":", "w", "3">>
                  [] element_id = "e2" -> <<"e", "2">>
                  [] element_id = "null" -> <<"n", "u", "l", "l">>
                  [] element_id = "last_element_id" -> <<"l", "a", "s", "t">>
                  [] OTHER -> <<>>
    IN  text # <<>> /\ text[1] = ":"

gemini_patterns ==
    {"element_id_from_previous_step", "previous_element_id", "found_element_id",
     "current_element_id", "last_element_id", "element_from_previous_step",
     "previous_element"}

\* execute_tool_calls: the element id it passes to the client for the
\* element_id of an appium_tap_element, appium_get_text or
\* appium_input_text block.
dispatch_element_id(element_id) ==
    IF element_id \in gemini_patterns THEN last_element_id
    ELSE IF ~Falsy(element_id) /\ ~StartsWithColon(element_id) THEN last_element_id
    ELSE element_id

\* An appium_tap_element block: the dispatch and smart_tap_element up to
\* its first request.
DispatchTap ==
    /\ pc = "idle"
    /\ \E tool_id \in ToolIds :
          LET given == dispatch_element_id(tool_id)
              element_id == ResolveElementId(given)
          IN  /\ op' = [name |-> "tap", tool_id |-> tool_id, given |-> given,
                        element_id |-> element_id]
              /\ IF Falsy(element_id)
                 THEN ReturnNow(Error("No element ID available for tap"))
                 ELSE Start(PageSourceReq(FALSE), "tap_fp_before")
    /\ UNCHANGED client

\* An appium_get_text block: the dispatch and smart_get_text up to its
\* first request.
DispatchGetText ==
    /\ pc = "idle"
    /\ \E tool_id \in ToolIds :
          LET given == dispatch_element_id(tool_id)
              element_id == ResolveElementId(given)
          IN  /\ op' = [name |-> "get_text", tool_id |-> tool_id, given |-> given,
                        element_id |-> element_id]
              /\ IF Falsy(element_id)
                 THEN ReturnNow(Error("No element ID available for get text"))
                 ELSE Start(GetTextReq(element_id), "get_text")
    /\ UNCHANGED client

\* An appium_input_text block: the dispatch and smart_input_text up to its
\* request, which carries the element id when there is one.
DispatchInputText ==
    /\ pc = "idle"
    /\ \E tool_id \in ToolIds :
          LET given == dispatch_element_id(tool_id)
              element_id == ResolveElementId(given)
          IN  /\ op' = [name |-> "input_text", tool_id |-> tool_id, given |-> given,
                        element_id |-> element_id]
              /\ Start(Req("appium_input_text", "", NoVal,
                           IF Falsy(element_id) THEN None ELSE element_id, "text"),
                       "input_text")
    /\ UNCHANGED client

\* smart_input_text, from the response on
InputTextDone ==
    /\ At("input_text")
    /\ IF resp.kind = "raise" THEN Raise ELSE Return(parse_tool_result(resp))
    /\ UNCHANGED <<client, op, fingerprint_before, candidates, trials>>

DispatchNext ==
    \/ DispatchTap
    \/ DispatchGetText
    \/ DispatchInputText
    \/ InputTextDone
    \/ TapNext
    \/ TextNext

\* The last block of a batch is a call on an element.
SpecDispatch == InitResolved /\ [][DispatchNext]_vars

-----------------------------------------------------------------------------
(* _find_element_candidates over snapshots and target texts.               *)

\* The snapshots and targets the candidate search is given: elements whose
\* text is the target, holds it, holds one word of it, holds it but for the
\* punctuation, or has none of it.
CandidateInputs ==
    LET Login  == <<"L", "o", "g", "i", "n">>
        LogIn  == <<"L", "o", "g", " ", "I", "n">>
        Log_In == <<"l", "o", "g", "-", "i", "n">>
        Logout == <<"L", "o", "g", "o", "u", "t">>
        Cart   == <<"C", "a", "r", "t">>
        Nodes  == {Elem("Button", Login, <<>>, <<>>, <<>>, <<>>),
                   Elem("Button", <<>>, Log_In, <<>>, <<"b">>, <<>>),
                   Elem("Link", Logout, <<>>, Logout, <<>>, <<>>),
                   Elem("Text", Cart, <<>>, <<>>, <<>>, <<"t">>)}
    IN  {[elements |-> es, target_text |-> t] :
            es \in SeqsUpTo(Nodes, MaxNodes), t \in {Login, LogIn, Log_In, Cart}}

\* The candidates are about to be searched.
InitCandidates ==
    /\ session_active = FALSE
    /\ current_platform = NonePlatform
    /\ last_element_id = None
    /\ element_store = [k \in {} |-> None]
    /\ pc = "search"
    /\ \E in \in CandidateInputs :
          op = [name |-> "find_element_candidates", elements |-> in.elements,
                target_text |-> in.target_text]
    /\ fingerprint_before = NoFingerprint
    /\ candidates = <<>>
    /\ trials = <<>>
    /\ inflight = NoReq
    /\ resp = NoResp
    /\ log = <<>>
    /\ ret = NoRet
    /\ raised = FALSE
    /\ calls = 0
    /\ TransportInit
    /\ OrchestratorInit
    /\ ControllerInit

\* candidates = self._find_element_candidates(elements, target_text)
FindElementCandidates ==
    /\ pc = "search"
    /\ pc' = "idle"
    /\ candidates' = find_element_candidates(op.elements, op.target_text)
    /\ UNCHANGED <<client, op, fingerprint_before, trials, inflight, resp, log, ret, raised,
                   calls, transport, orchestrator, controller>>

SpecCandidates == InitCandidates /\ [][FindElementCandidates]_vars

-----------------------------------------------------------------------------
(* _did_page_change over pairs of fingerprints.                            *)

\* The fingerprints _did_page_change is given: the ones
\* _get_page_fingerprint computes, {} among them, and mappings of one
\* content hash that differ in the other members.
Fingerprints ==
    LET Ids      == {<<"i", "1">>, <<"i", "2">>, <<"i", "3">>}
        Snippets == {<<"A", "d", "d">>, <<"B", "u", "y">>, <<"C", "u", "t">>,
                     <<"D", "i", "g">>, <<"E", "n", "d">>, <<"F", "i", "t">>}
    IN  {page_fingerprint(r) : r \in Responses(PageSourceReq(FALSE))}
        \cup {[empty |-> FALSE, source_hash |-> EmptyMarkup, element_count |-> element_count,
                form_count |-> form_count, button_count |-> button_count, title |-> title,
                unique_ids |-> unique_ids, text_snippets |-> text_snippets] :
                  element_count \in {0, 10, 11, 12}, form_count \in {0, 1},
                  button_count \in {0, 2, 3}, title \in {"", "A", "B"},
                  unique_ids \in {{}, Ids}, text_snippets \in {{}, Snippets}}

\* Two fingerprints are about to be compared.
InitDiff ==
    /\ session_active = FALSE
    /\ current_platform = NonePlatform
    /\ last_element_id = None
    /\ element_store = [k \in {} |-> None]
    /\ pc = "diff"
    /\ fingerprint_before \in Fingerprints
    /\ \E fingerprint_after \in Fingerprints :
          op = [name |-> "did_page_change", fingerprint_after |-> fingerprint_after,
                page_changed |-> FALSE]
    /\ candidates = <<>>
    /\ trials = <<>>
    /\ inflight = NoReq
    /\ resp = NoResp
    /\ log = <<>>
    /\ ret = NoRet
    /\ raised = FALSE
    /\ calls = 0
    /\ TransportInit
    /\ OrchestratorInit
    /\ ControllerInit

\* page_changed = self._did_page_change(fingerprint_before, fingerprint_after)
DidPageChange ==
    /\ pc = "diff"
    /\ pc' = "idle"
    /\ op' = [op EXCEPT !.page_changed = did_page_change(fingerprint_before, op.fingerprint_after)]
    /\ UNCHANGED <<client, fingerprint_before, candidates, trials, inflight, resp, log, ret,
                   raised, calls, transport, orchestrator, controller>>

SpecDiff == InitDiff /\ [][DidPageChange]_vars

-----------------------------------------------------------------------------
(* normalize_app_identifier over session arguments.                        *)

\* The session arguments the normalization is given.
AppInfos ==
    LET Apps == {<<"s", "a", "f", "a", "r", "i">>,
                 <<" ", "S", "a", "f", "a", "r", "i", " ">>,
                 <<"c", "o", "m", ".", "a", "p", "p", "l", "e", ".", "m", "o", "b", "i", "l", "e", "s", "a", "f", "a", "r", "i">>,
                 <<"n", "o", "t", "e", "s">>,
                 <<"c", "h", "r", "o", "m", "e">>,
                 <<"c", "o", "m", ".", "e", "x", "a", "m", "p", "l", "e", ".", "a", "p", "p">>,
                 <<"/", "t", "m", "p", "/", "M", "y", ".", "a", "p", "p">>,
                 <<"n", "o", "s", "u", "c", "h", "a", "p", "p">>}
    IN  {AppInfo(platform, app, app_activity, appActivity, udid, xcode_org_id, wda_bundle_id) :
            platform \in {<<>>, <<<<"i", "O", "S">>>>, <<<<"A", "n", "d", "r", "o", "i", "d">>>>},
            app \in {<<>>} \cup {<<a>> : a \in Apps},
            app_activity \in {<<>>, <<<<".", "M", "a", "i", "n">>>>},
            appActivity \in {<<>>, <<<<".", "A", "l", "t">>>>},
            udid \in {<<>>, <<<<"u", "1">>>>},
            xcode_org_id \in {<<>>, <<<<"x", "1">>>>},
            wda_bundle_id \in {<<>>, <<<<"w", "1">>>>}}

\* The arguments are about to be normalized.
InitNormalize ==
    /\ session_active = FALSE
    /\ current_platform = NonePlatform
    /\ last_element_id = None
    /\ element_store = [k \in {} |-> None]
    /\ pc = "normalize"
    /\ \E app_info \in AppInfos :
          op = [name |-> "normalize_app_identifier", app_info |-> app_info,
                normalized |-> app_info]
    /\ fingerprint_before = NoFingerprint
    /\ candidates = <<>>
    /\ trials = <<>>
    /\ inflight = NoReq
    /\ resp = NoResp
    /\ log = <<>>
    /\ ret = NoRet
    /\ raised = FALSE
    /\ calls = 0
    /\ TransportInit
    /\ OrchestratorInit
    /\ ControllerInit

\* normalized_args = self.normalize_app_identifier(session_args)
NormalizeAppIdentifier ==
    /\ pc = "normalize"
    /\ pc' = "idle"
    /\ op' = [op EXCEPT !.normalized = normalize_app_identifier(op.app_info)]
    /\ UNCHANGED <<client, fingerprint_before, candidates, trials, inflight, resp, log, ret,
                   raised, calls, transport, orchestrator, controller>>

SpecNormalize == InitNormalize /\ [][NormalizeAppIdentifier]_vars

-----------------------------------------------------------------------------
(* _build_smart_strategies over target texts.                              *)

\* The target texts: up to MaxWords words with a space between them.
TargetTexts ==
    LET Words == {<<"L", "o", "g", "i", "n">>, <<"p", "a", "s", "s", "w", "o", "r", "d">>,
                  <<"S", "u", "b", "m", "i", "t">>, <<"l", "o", "g", "o", "u", "t">>,
                  <<"m", "e", "n", "u">>, <<"T", "i", "t", "l", "e">>,
                  <<"C", "a", "r", "t">>, <<"n", "a", "v">>}
        Joined[n \in 1..MaxWords] ==
            IF n = 1 THEN Words ELSE {t \o <<" ">> \o w : t \in Joined[n - 1], w \in Words}
    IN  UNION {Joined[n] : n \in 1..MaxWords}

\* The strategies are about to be built for a target text.
InitBuild ==
    /\ session_active = FALSE
    /\ current_platform = NonePlatform
    /\ last_element_id = None
    /\ element_store = [k \in {} |-> None]
    /\ pc = "build"
    /\ \E target_text \in TargetTexts :
          op = [name |-> "build_smart_strategies", target_text |-> target_text,
                target_lower |-> Strip(Lower(target_text))]
    /\ fingerprint_before = NoFingerprint
    /\ candidates = <<>>
    /\ trials = <<>>
    /\ inflight = NoReq
    /\ resp = NoResp
    /\ log = <<>>
    /\ ret = NoRet
    /\ raised = FALSE
    /\ calls = 0
    /\ TransportInit
    /\ OrchestratorInit
    /\ ControllerInit

\* _build_smart_strategies(target_lower, target_text): trials takes the
\* list it returns.
BuildSmartStrategies ==
    /\ pc = "build"
    /\ pc' = "idle"
    /\ trials' = LET pairs == build_smart_strategies(op.target_lower, op.target_text)
                 IN  [i \in DOMAIN pairs |-> Trial("", pairs[i][1], pairs[i][2])]
    /\ UNCHANGED <<client, op, fingerprint_before, candidates, inflight, resp, log, ret, raised,
                   calls, transport, orchestrator, controller>>

SpecBuild == InitBuild /\ [][BuildSmartStrategies]_vars

-----------------------------------------------------------------------------
(* The orchestrator: main and the loop of execute_tool_calls.              *)

\* The variables of the client's calls, which a run is not followed into.
call == <<client, pc, op, fingerprint_before, candidates, trials, inflight, resp, log, ret,
          raised, calls>>

\* How the handling of a block ends: "skipped" for a block that is not
\* JSON, "success" and "error_result" for a call that returned, "exception"
\* for a call that raised while the backend lives (an error member in the
\* response, a line that is not JSON, an exception of the client's own
\* code), "no_response" for a call made when the backend process has ended.
Handled(index, outcome) == [index |-> index, outcome |-> outcome]

\* main: json_blocks = run_single_prompt(args.prompt), and
\* execute_tool_calls is run if there are blocks.
RunSinglePrompt ==
    /\ phase = "main"
    /\ \E blocks \in SeqsUpTo({"bad_json", "tool"}, MaxBlocks) :
          /\ json_blocks' = blocks
          /\ phase' = IF blocks = <<>> THEN "returned" ELSE "start"
    /\ UNCHANGED <<block_i, handled, backend_alive, controller>>
    /\ UNCHANGED <<call, transport>>

\* execute_tool_calls before its loop: client.initialize() returns, or it
\* raises and the outer except ends the function.
Initialize ==
    /\ phase = "start"
    /\ \E ok \in {backend_alive, FALSE} : phase' = IF ok THEN "loop" ELSE "failed"
    /\ UNCHANGED <<json_blocks, block_i, handled, backend_alive, controller>>
    /\ UNCHANGED <<call, transport>>

\* One turn of the loop, were an exception of the call to leave the loop.
ExecuteCallStopping ==
    /\ phase = "loop"
    /\ block_i <= Len(json_blocks)
    /\ \E outcome \in IF json_blocks[block_i] = "bad_json" THEN {"skipped"}
                       ELSE IF backend_alive THEN {"success", "error_result", "exception"}
                       ELSE {"no_response"} :
          /\ handled' = Append(handled, Handled(block_i, outcome))
          /\ phase' = IF outcome \in {"exception", "no_response"} THEN "failed" ELSE phase
    /\ block_i' = block_i + 1
    /\ UNCHANGED <<json_blocks, backend_alive, controller>>
    /\ UNCHANGED <<call, transport>>

\* One turn of the loop: the block is parsed and its call is made; whatever
\* the call raises is caught by the except of the turn, and the loop goes on.
ExecuteCall ==
    /\ phase = "loop"
    /\ block_i <= Len(json_blocks)
    /\ \E outcome \in IF json_blocks[block_i] = "bad_json" THEN {"skipped"}
                       ELSE IF backend_alive THEN {"success", "error_result", "exception"}
                       ELSE {"no_response"} :
          handled' = Append(handled, Handled(block_i, outcome))
    /\ block_i' = block_i + 1
    /\ UNCHANGED <<json_blocks, backend_alive, controller, phase>>
    /\ UNCHANGED <<call, transport>>

\* The loop has been through every block: execute_tool_calls returns.
LoopEnds ==
    /\ phase = "loop"
    /\ block_i > Len(json_blocks)
    /\ phase' = "returned"
    /\ UNCHANGED <<json_blocks, block_i, handled, backend_alive, controller>>
    /\ UNCHANGED <<call, transport>>

\* The backend process ends while the run is under way.
BackendDies ==
    /\ backend_alive
    /\ phase \in {"start", "loop"}
    /\ backend_alive' = FALSE
    /\ UNCHANGED <<json_blocks, block_i, handled, phase, controller>>
    /\ UNCHANGED <<call, transport>>

\* main's finally: the process is terminated and waited for; no request is
\* written to it.
Terminate ==
    /\ phase \in {"returned", "failed"}
    /\ phase' = "terminated"
    /\ backend_alive' = FALSE
    /\ UNCHANGED <<json_blocks, block_i, handled, controller>>
    /\ UNCHANGED <<call, transport>>

RunNext ==
    \/ RunSinglePrompt
    \/ Initialize
    \/ ExecuteCall
    \/ LoopEnds
    \/ BackendDies
    \/ Terminate

SpecRun == Init /\ [][RunNext]_vars

-----------------------------------------------------------------------------
(* The interactive run: one batch of tool calls for each prompt.           *)

\* interactive_mode: a prompt gives a batch of blocks ("find" for an
\* appium_find_element call, "tap" for an appium_tap_element call without
\* element_id) and execute_tool_calls is run on it: it makes a new
\* EnhancedMCPClient on the same backend process and initializes it, which
\* writes the initialize request with the new client's first id and the
\* notification, a line without id (0).  handled goes on over the prompts;
\* its entry "new_client" marks the start of a batch.  stdin holds the
\* lines written to the backend, which is not modelled reading them here.
InteractivePrompt ==
    /\ phase \in {"main", "returned"}
    /\ Len(SelectSeq(handled, LAMBDA h : h.outcome = "new_client")) < MaxPrompts
    /\ \E blocks \in SeqsUpTo({"find", "tap"}, MaxBlocks) \ {<<>>} : json_blocks' = blocks
    /\ block_i' = 1
    /\ handled' = Append(handled, [index |-> 0, outcome |-> "new_client", element |-> None])
    /\ phase' = "loop"
    /\ session_active' = FALSE
    /\ current_platform' = NonePlatform
    /\ last_element_id' = None
    /\ element_store' = [k \in {} |-> None]
    /\ request_id' = 1
    /\ stdin' = stdin \o <<1, 0>>
    /\ UNCHANGED <<pc, op, fingerprint_before, candidates, trials, inflight, resp, log, ret,
                   raised, calls, stdout, awaited, got, backend_alive, controller>>

\* The n requests of a call are written, each with the id get_next_id gives.
Written(n) ==
    /\ request_id' = request_id + n
    /\ stdin' = stdin \o [k \in 1..n |-> request_id + k]
    /\ UNCHANGED <<stdout, awaited, got>>

\* One turn of the loop on an appium_find_element block:
\* client.smart_find_element resolves an element, which becomes the
\* client's last element, or resolves none; it writes one request or more.
BatchFind ==
    /\ phase = "loop"
    /\ block_i <= Len(json_blocks)
    /\ json_blocks[block_i] = "find"
    /\ \E e \in ElemIds \cup {None} :
          /\ last_element_id' = IF e = None THEN last_element_id ELSE e
          /\ handled' = Append(handled,
                 [index |-> block_i, outcome |-> IF e = None THEN "not_found" ELSE "resolved",
                  element |-> e])
    /\ \E n \in 1..2 : Written(n)
    /\ block_i' = block_i + 1
    /\ UNCHANGED <<session_active, current_platform, element_store, pc, op, fingerprint_before,
                   candidates, trials, inflight, resp, log, ret, raised, calls,
                   json_blocks, backend_alive, controller, phase>>

\* One turn of the loop on an appium_tap_element block without element_id:
\* client.smart_tap_element(None) taps the client's last element, or
\* returns its error, without a request, when the client has none.
BatchTap ==
    /\ phase = "loop"
    /\ block_i <= Len(json_blocks)
    /\ json_blocks[block_i] = "tap"
    /\ handled' = Append(handled,
           [index |-> block_i,
            outcome |-> IF Falsy(ResolveElementId(None)) THEN "no_element" ELSE "tapped",
            element |-> ResolveElementId(None)])
    /\ IF Falsy(ResolveElementId(None)) THEN UNCHANGED transport ELSE \E n \in 1..2 : Written(n)
    /\ block_i' = block_i + 1
    /\ UNCHANGED <<call, json_blocks, backend_alive, controller, phase>>

InteractiveNext ==
    \/ InteractivePrompt
    \/ BatchFind
    \/ BatchTap
    \/ LoopEnds

SpecInteractive == Init /\ [][InteractiveNext]_vars

-----------------------------------------------------------------------------
(* The backend: handle_call_tool and the controller's drivers.             *)

\* active_session with no driver.
NoSession == [driver |-> 0, session_id |-> 0]

\* driver.quit(): the driver's session on the Appium server ends.
QuitDriver(ds, d) == [ds EXCEPT ![d] = "quit"]

\* How the controller's start_session goes: "remote_raises" when the
\* options, the Appium server or webdriver.Remote raise, so that no driver
\* is made; "navigation_raises" when the driver is made and the navigation
\* to start_url raises; "started" otherwise.
DriverOutcomes == {"remote_raises", "navigation_raises", "started"}

\* appium_controller.start_session: the controller's state after it and
\* the result it returns.  The driver webdriver.Remote returns is stored at
\* once, whatever active_session held; the except branch quits the driver
\* active_session holds at that moment.
controller_start_session(platform, outcome) ==
    LET supported == platform \in {<<"i", "o", "s">>, <<"a", "n", "d", "r", "o", "i", "d">>}
        driver == Len(drivers) + 1
        made == Append(drivers, "live")
    IN  IF ~supported \/ outcome = "remote_raises"
        THEN [active_session |-> NoSession,
              drivers |-> IF active_session.driver # 0
                          THEN QuitDriver(drivers, active_session.driver)
                          ELSE drivers,
              result |-> Error("Failed to start session")]
        ELSE IF outcome = "navigation_raises"
        THEN [active_session |-> NoSession,
              drivers |-> QuitDriver(made, driver),
              result |-> Error("Failed to start session")]
        ELSE [active_session |-> [driver |-> driver, session_id |-> driver],
              drivers |-> made,
              result |-> Success("Started Appium session")]

\* appium_controller.quit_session: the controller's state after it and the
\* result it returns.
controller_quit_session ==
    IF active_session.driver # 0
    THEN [active_session |-> NoSession,
          drivers |-> QuitDriver(drivers, active_session.driver),
          result |-> Success("Session terminated successfully")]
    ELSE [active_session |-> active_session,
          drivers |-> drivers,
          result |-> Result("no_session", None, <<>>, EmptyMarkup, "No active session to quit")]

\* The locator strategies find_element and input_text have a branch for.
LocatorStrategies == {"id", "xpath", "class_name", "accessibility_id"}

\* What a controller function leaves and returns: the element store after
\* it, the result, and the calls it made on the driver and its elements,
\* in order.
Outcome(store, result, driver_calls) ==
    [element_store |-> store, result |-> result, driver_calls |-> driver_calls]

\* appium_controller.find_element; found is the id of the element
\* driver.find_element returns, None when it raises.
controller_find_element(strategy, value, found) ==
    IF active_session.driver = 0
    THEN Outcome(controller_element_store,
                 Error("No active session. Please start a session first."), <<>>)
    ELSE IF strategy \notin LocatorStrategies
    THEN Outcome(controller_element_store, Error("Unsupported locator strategy"), <<>>)
    ELSE IF found = None
    THEN Outcome(controller_element_store, Error("Failed to find element"), <<"find_element">>)
    ELSE Outcome([e \in DOMAIN controller_element_store \cup {found} |->
                     IF e = found THEN active_session.driver ELSE controller_element_store[e]],
                 Result("success", found, <<>>, EmptyMarkup, "Found element"),
                 <<"find_element">>)

\* What a call on a stored element does: an element of a driver that was
\* quit raises an exception that is not the stale-element exception.
OnElement(element_id, outcome) ==
    IF drivers[controller_element_store[element_id]] = "live" THEN outcome ELSE "raises"

\* The number of element.click() calls tap_element makes with up to limit
\* attempts, when the successive clicks go as clicks says ("ok", "stale",
\* "raises"), retrying after the outcomes in retried.
Clicks(element_id, clicks, limit, retried) ==
    LET ends == {i \in 1..limit : OnElement(element_id, clicks[i]) \notin retried}
    IN  IF ends = {} THEN limit ELSE CHOOSE i \in ends : \A k \in ends : i <= k

\* tap_element with a fourth attempt.
controller_tap_element_four(element_id, clicks) ==
    IF active_session.driver = 0
    THEN Outcome(controller_element_store,
                 Error("No active session. Please start a session first."), <<>>)
    ELSE IF element_id \notin DOMAIN controller_element_store
    THEN Outcome(controller_element_store, Error("Element ID not found in element store"), <<>>)
    ELSE LET n == Clicks(element_id, clicks, 4, {"stale"})
             made == [i \in 1..n |-> OnElement(element_id, clicks[i])]
         IN  Outcome(controller_element_store,
                     IF made[n] = "ok"
                     THEN Result("success", element_id, <<>>, EmptyMarkup, "Successfully tapped element")
                     ELSE IF made[n] = "stale"
                     THEN Error("Failed to tap element after retries due to staleness")
                     ELSE Error("Failed to tap element"),
                     made)

\* appium_controller.tap_element; clicks says how the successive
\* element.click() calls go.
controller_tap_element(element_id, clicks) ==
    IF active_session.driver = 0
    THEN Outcome(controller_element_store,
                 Error("No active session. Please start a session first."), <<>>)
    ELSE IF element_id \notin DOMAIN controller_element_store
    THEN Outcome(controller_element_store, Error("Element ID not found in element store"), <<>>)
    ELSE LET n == Clicks(element_id, clicks, 3, {"stale"})
             made == [i \in 1..n |-> OnElement(element_id, clicks[i])]
         IN  Outcome(controller_element_store,
                     IF made[n] = "ok"
                     THEN Result("success", element_id, <<>>, EmptyMarkup, "Successfully tapped element")
                     ELSE IF made[n] = "stale"
                     THEN Error("Failed to tap element after retries due to staleness")
                     ELSE Error("Failed to tap element"),
                     made)

\* appium_controller.get_text; read says how element.text goes.
controller_get_text(element_id, read) ==
    IF active_session.driver = 0
    THEN Outcome(controller_element_store,
                 Error("No active session. Please start a session first."), <<>>)
    ELSE IF element_id \notin DOMAIN controller_element_store
    THEN Outcome(controller_element_store, Error("No element found with ID"), <<>>)
    ELSE IF OnElement(element_id, read) = "ok"
    THEN Outcome(controller_element_store,
                 Result("success", element_id, <<NameText>>, EmptyMarkup, "Retrieved text from element"),
                 <<"text">>)
    ELSE Outcome(controller_element_store, Error("Failed to retrieve text"), <<"text">>)

\* appium_controller.input_text; found is the element driver.find_element
\* returns (None when it raises), typed says how element.send_keys goes.
controller_input_text(element_id, text, strategy, value, found, typed) ==
    IF active_session.driver = 0
    THEN Outcome(controller_element_store, Error("No active session"), <<>>)
    ELSE IF ~Falsy(element_id)
    THEN IF element_id \notin DOMAIN controller_element_store
         THEN Outcome(controller_element_store, Error("Element ID not found in element store"), <<>>)
         ELSE IF OnElement(element_id, typed) = "ok"
         THEN Outcome(controller_element_store,
                      Result("success", element_id, <<text>>, EmptyMarkup, "Sent text to element"),
                      <<"send_keys">>)
         ELSE Outcome(controller_element_store, Error("send_keys raised"), <<"send_keys">>)
    ELSE IF ~Falsy(strategy) /\ ~Falsy(value)
    THEN IF strategy \notin LocatorStrategies
         THEN Outcome(controller_element_store, Error("Unsupported locator strategy"), <<>>)
         ELSE IF found = None
         THEN Outcome(controller_element_store, Error("find_element raised"), <<"find_element">>)
         ELSE LET store == [e \in DOMAIN controller_element_store \cup {found} |->
                               IF e = found THEN active_session.driver
                               ELSE controller_element_store[e]]
              IN  IF typed = "ok"
                  THEN Outcome(store,
                               Result("success", found, <<text>>, EmptyMarkup, "Sent text to element"),
                               <<"find_element", "send_keys">>)
                  ELSE Outcome(store, Error("send_keys raised"), <<"find_element", "send_keys">>)
    ELSE Outcome(controller_element_store,
                 Error("Must provide either element_id or strategy+value"), <<>>)

\* The arguments of a tools/call request, as far as the branches of
\* handle_call_tool read them: None is a key that is missing.
Arguments(platform, element_id, text, strategy, value) ==
    [platform |-> platform, element_id |-> element_id, text |-> text,
     strategy |-> strategy, value |-> value]

\* How the driver answers the calls a tool makes on it.
Env(start, found, clicks, typed) ==
    [start |-> start, found |-> found, clicks |-> clicks, typed |-> typed]

\* handle_call_tool for the tools of the session and of elements: the
\* controller's state after the call, the content it answers with and the
\* calls made on the driver.  appium_start_session, appium_find_element,
\* appium_tap_element, appium_input_text and appium_get_text have a branch,
\* which returns the controller's result as JSON text; the appium_input_text
\* branch passes element_id and text on, and not strategy and value.  The
\* chain has no branch for appium_quit_session, which falls to the final
\* else and is answered with the text "Unknown tool: appium_quit_session".
handle_call_tool(name, arguments, env) ==
    LET Answered(outcome) ==
            [active_session |-> active_session, drivers |-> drivers,
             element_store |-> outcome.element_store,
             resp |-> Resp("result", outcome.result),
             driver_calls |-> outcome.driver_calls]
    IN  CASE name = "appium_start_session" ->
               LET result == controller_start_session(arguments.platform, env.start)
               IN  [active_session |-> result.active_session,
                    drivers |-> result.drivers,
                    element_store |-> controller_element_store,
                    resp |-> Resp("result", result.result),
                    driver_calls |-> <<>>]
          [] name = "appium_find_element" ->
               Answered(controller_find_element(arguments.strategy, arguments.value, env.found))
          [] name = "appium_tap_element" ->
               Answered(controller_tap_element(arguments.element_id, env.clicks))
          [] name = "appium_input_text" ->
               Answered(controller_input_text(arguments.element_id, arguments.text, None, None,
                                              env.found, env.typed))
          [] name = "appium_get_text" ->
               Answered(controller_get_text(arguments.element_id, env.typed))
          [] OTHER ->
               [active_session |-> active_session, drivers |-> drivers,
                element_store |-> controller_element_store,
                resp |-> Resp("not_json", NoRet),
                driver_calls |-> <<>>]

\* The backend process handles the session request in flight.  The line
\* the client reads for it is the response, or another line of the
\* backend's standard output, at which send_request raises.
ServeCallTool ==
    /\ inflight.tool \in {"appium_start_session", "appium_quit_session"}
    /\ resp.kind = "none"
    /\ \E outcome \in DriverOutcomes : \E read \in BOOLEAN :
          LET platform == IF op.name = "start_session" THEN CleanPlatform(op.clean_args) ELSE <<>>
              served == handle_call_tool(inflight.tool,
                                         Arguments(platform, None, None, None, None),
                                         Env(outcome, None, <<>>, "ok"))
          IN  /\ active_session' = served.active_session
              /\ drivers' = served.drivers
              /\ controller_element_store' = served.element_store
              /\ screen' = screen
              /\ resp' = IF read THEN served.resp ELSE Resp("raise", NoRet)
    /\ log' = Append(log, Event("resp", inflight, ""))
    /\ inflight' = NoReq
    /\ UNCHANGED <<client, pc, op, fingerprint_before, candidates, trials, ret, raised, calls,
                   transport, orchestrator>>

SessionNext ==
    \/ StartSession
    \/ StartSessionDone
    \/ QuitSession
    \/ QuitSessionDone
    \/ ServeCallTool

\* The session calls of the client, served by the backend's code.
SpecSession == Init /\ [][SessionNext]_vars

-----------------------------------------------------------------------------
(* The backend on its own: tool calls served by handle_call_tool.          *)

\* The locators of the calls served: a supported strategy, one without a
\* branch, and none.
ServedLocators == {<<"id", "v">>, <<"swipe", "v">>, <<None, None>>}

\* How a call on an element can go.
ElementOutcomes == {"ok", "stale", "raises"}

\* handle_call_tool serves the call name(arguments) with the driver
\* answering as env says; the call, the state it met, its result and the
\* driver calls it made are recorded.
Served(name, arguments, env) ==
    LET served == handle_call_tool(name, arguments, env)
    IN  /\ calls' = calls + 1
        /\ op' = [name |-> name, arguments |-> arguments,
                  session |-> active_session.driver # 0,
                  stored |-> arguments.element_id \in DOMAIN controller_element_store,
                  store_before |-> controller_element_store]
        /\ active_session' = served.active_session
        /\ drivers' = served.drivers
        /\ controller_element_store' = served.element_store
        /\ screen' = screen
        /\ ret' = parse_tool_result(served.resp)
        /\ trials' = served.driver_calls
        /\ UNCHANGED <<client, pc, fingerprint_before, candidates, inflight, resp, log, raised,
                       transport, orchestrator>>

ServeStartSession ==
    /\ calls < MaxServed
    /\ \E platform \in {<<"i", "o", "s">>, <<>>} : \E start \in DriverOutcomes :
           Served("appium_start_session", Arguments(platform, None, None, None, None),
                  Env(start, None, <<>>, "ok"))

ServeFindElement ==
    /\ calls < MaxServed
    /\ \E locator \in ServedLocators : \E found \in ElemIds \cup {None} :
           Served("appium_find_element", Arguments(<<>>, None, None, locator[1], locator[2]),
                  Env("started", found, <<>>, "ok"))

ServeTapElement ==
    /\ calls < MaxServed
    /\ \E element_id \in ElemIds : \E clicks \in [1..4 -> ElementOutcomes] :
           Served("appium_tap_element", Arguments(<<>>, element_id, None, None, None),
                  Env("started", None, clicks, "ok"))

ServeInputText ==
    /\ calls < MaxServed
    /\ \E element_id \in {None, "e1"} : \E locator \in ServedLocators :
       \E found \in {None, "e2"} : \E typed \in {"ok", "raises"} :
           Served("appium_input_text", Arguments(<<>>, element_id, NameText, locator[1], locator[2]),
                  Env("started", found, <<>>, typed))

ServeGetText ==
    /\ calls < MaxServed
    /\ \E element_id \in ElemIds : \E read \in {"ok", "raises"} :
           Served("appium_get_text", Arguments(<<>>, element_id, None, None, None),
                  Env("started", None, <<>>, read))

\* The controller's quit_session, called as a function of the controller.
ControllerQuitSession ==
    LET quit == controller_quit_session
    IN  /\ calls < MaxServed
        /\ calls' = calls + 1
        /\ op' = [name |-> "quit_session", arguments |-> Arguments(<<>>, None, None, None, None),
                  session |-> active_session.driver # 0, stored |-> FALSE,
                  store_before |-> controller_element_store]
        /\ active_session' = quit.active_session
        /\ drivers' = quit.drivers
        /\ ret' = quit.result
        /\ trials' = <<>>
        /\ UNCHANGED <<client, pc, fingerprint_before, candidates, inflight, resp, log, raised,
                       transport, orchestrator, controller_element_store, screen>>

ControllerNext ==
    \/ ServeStartSession
    \/ ServeFindElement
    \/ ServeTapElement
    \/ ServeInputText
    \/ ServeGetText
    \/ ControllerQuitSession

\* The backend serving tool calls one after the other.
SpecController == Init /\ [][ControllerNext]_vars

-----------------------------------------------------------------------------
(* enhanced_extract_selectors over trees and values of max_elements.       *)

\* A parsed tree is the sequence of its nodes in document order, each with
\* its depth under the root (0) and the element information read from it.
Node(depth, element_info) == [depth |-> depth, element_info |-> element_info]

\* for child in elem: the children of node elem, in document order.
Children(tree, elem) ==
    {j \in (elem + 1)..Len(tree) :
        /\ tree[j].depth = tree[elem].depth + 1
        /\ \A k \in (elem + 1)..(j - 1) : tree[k].depth > tree[elem].depth}

RECURSIVE traverse(_, _, _, _)
RECURSIVE traverse_children(_, _, _, _)

\* traverse_element that does not go into a node without useful information.
traverse_pruning(tree, limit, elem, elements) ==
    IF Len(elements) >= limit THEN elements
    ELSE IF has_useful_info(tree[elem].element_info)
         THEN traverse_children(tree, limit, Children(tree, elem), Append(elements, elem))
         ELSE elements

\* traverse_element(elem) with max_elements = limit: elements is the list
\* collected so far (count is its length), as node positions.
traverse(tree, limit, elem, elements) ==
    IF Len(elements) >= limit THEN elements
    ELSE traverse_children(tree, limit, Children(tree, elem),
                           IF has_useful_info(tree[elem].element_info)
                           THEN Append(elements, elem)
                           ELSE elements)

\* The loop over the children of a node, left are those not yet visited.
traverse_children(tree, limit, left, elements) ==
    IF left = {} \/ Len(elements) >= limit THEN elements
    ELSE LET child == CHOOSE c \in left : \A d \in left : c <= d
         IN  traverse_children(tree, limit, left \ {child},
                               traverse(tree, limit, child, elements))

\* The trees of up to MaxTree nodes, of nodes with and without useful
\* information.
Trees ==
    LET Infos == {Elem("Button", <<"O", "k">>, <<>>, <<>>, <<>>, <<>>),
                  Elem("XCUIElementTypeOther", <<>>, <<>>, <<>>, <<>>, <<>>)}
        Shaped(t) == /\ t # <<>>
                     /\ t[1].depth = 0
                     /\ \A i \in 2..Len(t) : t[i].depth \in 1..(t[i - 1].depth + 1)
    IN  {t \in SeqsUpTo({Node(d, e) : d \in 0..(MaxTree - 1), e \in Infos}, MaxTree) : Shaped(t)}

InitExtract ==
    /\ session_active = FALSE
    /\ current_platform = NonePlatform
    /\ last_element_id = None
    /\ element_store = [k \in {} |-> None]
    /\ pc = "extract"
    /\ \E tree \in Trees : \E limit \in 0..MaxLimit :
          op = [name |-> "enhanced_extract_selectors", tree |-> tree, limit |-> limit,
                nodes |-> <<>>, elements |-> <<>>]
    /\ fingerprint_before = NoFingerprint
    /\ candidates = <<>>
    /\ trials = <<>>
    /\ inflight = NoReq
    /\ resp = NoResp
    /\ log = <<>>
    /\ ret = NoRet
    /\ raised = FALSE
    /\ calls = 0
    /\ TransportInit
    /\ OrchestratorInit
    /\ ControllerInit

\* traverse_element(root) and the elements returned
ExtractSelectors ==
    /\ pc = "extract"
    /\ pc' = "idle"
    /\ LET nodes == traverse(op.tree, op.limit, 1, <<>>)
       IN  op' = [op EXCEPT !.nodes = nodes,
                            !.elements = [k \in DOMAIN nodes |-> op.tree[nodes[k]].element_info]]
    /\ UNCHANGED <<client, fingerprint_before, candidates, trials, inflight, resp, log, ret,
                   raised, calls, transport, orchestrator, controller>>

SpecExtract == InitExtract /\ [][ExtractSelectors]_vars

-----------------------------------------------------------------------------
(* parse_tool_result over the shapes of a result.                          *)

\* The results parse_tool_result is given: the malformed shapes, and the
\* well-formed ones over the objects the backend's tools answer with.
ToolResults ==
    {Resp(kind, NoRet) : kind \in {"null", "no_content", "empty_content", "no_text", "not_json"}}
    \cup {Resp("not_object", [json |-> j]) : j \in {"array", "number", "string", "true", "false", "null"}}
    \cup {Resp("result", Result("", None, <<>>, EmptyMarkup, "no status"))}
    \cup {Resp("result", o) :
             o \in UNION {BackendResults(Req(tool, "", NoVal, None, "")) :
                            tool \in {"appium_find_element", "appium_get_text",
                                      "appium_get_page_source", "appium_tap_element"}}}

\* A result is about to be parsed.
InitParse ==
    /\ session_active = FALSE
    /\ current_platform = NonePlatform
    /\ last_element_id = None
    /\ element_store = [k \in {} |-> None]
    /\ pc = "parse"
    /\ op = [name |-> "parse_tool_result"]
    /\ fingerprint_before = NoFingerprint
    /\ candidates = <<>>
    /\ trials = <<>>
    /\ inflight = NoReq
    /\ resp \in ToolResults
    /\ log = <<>>
    /\ ret = NoRet
    /\ raised = FALSE
    /\ calls = 0
    /\ TransportInit
    /\ OrchestratorInit
    /\ ControllerInit

\* parse_tool_result(resp)
ParseToolResult ==
    /\ pc = "parse"
    /\ pc' = "idle"
    /\ raised' = parse_tool_result_raises(resp)
    /\ ret' = IF parse_tool_result_raises(resp) THEN NoRet ELSE parse_tool_result(resp)
    /\ UNCHANGED <<client, op, fingerprint_before, candidates, trials, inflight, resp, log, calls,
                   transport, orchestrator, controller>>

SpecParse == InitParse /\ [][ParseToolResult]_vars

-----------------------------------------------------------------------------
(* The transport: send_request over the pipes of the backend process.      *)

\* A line of the backend's standard output.  A response carries the id of
\* the request it answers and either a result or an error member; the
\* result of the response to request k is written k.  A diagnostic line is
\* the text print() writes, which is not JSON.  "eof" stands for the end of
\* the stream, where readline() returns the empty string.
Line(kind, id) == [kind |-> kind, id |-> id, result |-> IF kind = "result" THEN id ELSE 0]

\* handle_call_tool: the DEBUG line goes to standard output ahead of the
\* response of the call; requests other than tools/call are answered
\* without it.
ServerLines(id) ==
    {<<Line("diagnostic", 0), Line(kind, id)>> : kind \in {"result", "error"}}
    \cup {<<Line(kind, id)>> : kind \in {"result", "error"}}

\* send_request up to its readline: the next id is taken and the request
\* is written.
SendRequest ==
    /\ awaited = 0
    /\ request_id < MaxRequests
    /\ request_id' = request_id + 1
    /\ stdin' = Append(stdin, request_id + 1)
    /\ awaited' = request_id + 1
    /\ UNCHANGED <<stdout, got>>
    /\ UNCHANGED <<client, pc, op, fingerprint_before, candidates, trials, inflight, resp, log,
                   ret, raised, calls, orchestrator, controller>>

\* The backend handles the oldest request it has not handled.
ServerHandle ==
    /\ stdin # <<>>
    /\ ~(stdout # <<>> /\ stdout[Len(stdout)].kind = "eof")
    /\ \E lines \in ServerLines(Head(stdin)) : stdout' = stdout \o lines
    /\ stdin' = Tail(stdin)
    /\ UNCHANGED <<request_id, awaited, got>>
    /\ UNCHANGED <<client, pc, op, fingerprint_before, candidates, trials, inflight, resp, log,
                   ret, raised, calls, orchestrator, controller>>

\* The backend process ends: its output stream is closed after the lines
\* already written.
ServerExits ==
    /\ ~(stdout # <<>> /\ stdout[Len(stdout)].kind = "eof")
    /\ stdout' = Append(stdout, Line("eof", 0))
    /\ UNCHANGED <<request_id, stdin, awaited, got>>
    /\ UNCHANGED <<client, pc, op, fingerprint_before, candidates, trials, inflight, resp, log,
                   ret, raised, calls, orchestrator, controller>>

\* send_request from its readline on: one line is read; an empty line, a
\* line that is not JSON and a response with an error member raise, any
\* other line's result member is returned.
ReadLine ==
    /\ awaited # 0
    /\ stdout # <<>>
    /\ LET response_line == Head(stdout)
       IN  /\ got' = [for |-> awaited,
                      outcome |-> IF response_line.kind = "result" THEN "result" ELSE "raise",
                      id |-> response_line.id,
                      result |-> response_line.result]
           /\ stdout' = IF response_line.kind = "eof" THEN stdout ELSE Tail(stdout)
    /\ awaited' = 0
    /\ UNCHANGED <<request_id, stdin>>
    /\ UNCHANGED <<client, pc, op, fingerprint_before, candidates, trials, inflight, resp, log,
                   ret, raised, calls, orchestrator, controller>>

TransportNext ==
    \/ SendRequest
    \/ ServerHandle
    \/ ServerExits
    \/ ReadLine

SpecTransport == Init /\ [][TransportNext]_vars

-----------------------------------------------------------------------------
(* Element resolution: the order of the attempts.                          *)

\* C1: in the inspection fallback every candidate of tier "exact" is tried
\* before any candidate of tier "contains", whatever the order of the
\* elements in the snapshot: no attempt on a "contains" candidate is in
\* flight while an "exact" candidate is still waiting, and none precedes an
\* attempt on an "exact" candidate in the call's requests.
C1_ExactBeforeContains ==
    /\ pc = "candidate_try" =>
          \A k \in DOMAIN trials : trials[1].tier = "contains" => trials[k].tier # "exact"
    /\ \A i, j \in DOMAIN log :
          (log[i].tier = "contains" /\ log[j].tier = "exact") => j < i

\* C2 as stated: the first backend request of smart_find_element is the
\* direct find-element with the caller's strategy and value verbatim.
C2_DirectFindFirst ==
    (op.name = "find_element" /\ log # <<>>) =>
        log[1] = Event("req", FindReq(op.strategy, Val("{}", <<op.value>>)), "")

\* C2 amended: the first backend request of smart_find_element is the brief
\* page-source read of the web-context check.  When the check finds no web
\* context the next request is the direct find-element with the caller's
\* strategy and value verbatim, and the inspection's full page-source read
\* follows only a direct attempt that found nothing; when it finds a web
\* context the next request is the first entry of the web strategy list.
C2_WebCheckThenDirect ==
    /\ []((op.name = "find_element" /\ log # <<>>) =>
             log[1] = Event("req", PageSourceReq(FALSE), ""))
    /\ [][At("web_check") =>
             IF is_web_context(resp)
             THEN /\ pc' = "web_try"
                  /\ inflight' = FindReq(web_strategies(op.strategy, op.value)[1].strategy,
                                         web_strategies(op.strategy, op.value)[1].value)
             ELSE /\ pc' = "direct_find"
                  /\ inflight' = FindReq(op.strategy, Val("{}", <<op.value>>))]_vars
    /\ [][At("direct_find") =>
             /\ pc' = "inspect" => (~Found(resp) /\ inflight' = PageSourceReq(TRUE))
             /\ Found(resp) => (pc' = "idle" /\ log' = log /\ ret' = parse_tool_result(resp))]_vars

\* The web check found a native page and the direct attempt is in flight.
C2_Witness ==
    /\ pc = "direct_find"
    /\ Len(log) = 3
    /\ inflight = FindReq(op.strategy, Val("{}", <<op.value>>))

-----------------------------------------------------------------------------
(* The session state.                                                      *)

\* C9: after quit_session returns the session state is entirely cleared:
\* the active flag is false, the platform unset, the last-resolved element
\* id unset and the element store empty.
C9_QuitClearsAll ==
    (pc = "idle" /\ op.name = "quit_session" /\ ~raised) =>
        /\ session_active = FALSE
        /\ current_platform = NonePlatform
        /\ last_element_id = None
        /\ DOMAIN element_store = {}

\* C10: start_session sets the active flag and records the lower-cased
\* platform of the request exactly when the normalized result has status
\* "success"; otherwise the flag and the platform are left as they were; the
\* last element id and the element store are never touched.
C10_StartSessionFrame ==
    [][At("start_session") =>
          LET success   == resp.kind # "raise" /\ parse_tool_result(resp).status = "success"
              requested == op.clean_args.platform
          IN  /\ success =>
                    /\ session_active' = TRUE
                    /\ current_platform' = <<IF requested = <<>> THEN <<>> ELSE Lower(requested[1])>>
              /\ ~success => UNCHANGED <<session_active, current_platform>>
              /\ UNCHANGED <<last_element_id, element_store>>]_vars

\* A session was started for "iOS" and the platform is recorded as "ios".
C10_Witness ==
    /\ pc = "idle"
    /\ op.name = "start_session"
    /\ op.clean_args.platform = <<<<"i", "O", "S">>>>
    /\ ret.status = "success"
    /\ session_active = TRUE
    /\ current_platform = <<<<"i", "o", "s">>>>

\* C11: start_session never raises: a backend error response, a missing
\* response and an unparsable response line all come back to the caller as
\* a result with status "error".
C11_StartSessionNeverRaises ==
    (pc = "idle" /\ op.name = "start_session") =>
        /\ ~raised
        /\ ret.status \in {"success", "error"}

\* C12: what send_request returns for the request with id k is the result
\* of the response whose id is k: a diagnostic line or the late response to
\* an earlier request is never returned as the result of request k, also
\* after an earlier request ended in an invalid-JSON exception.
C12_ResultOfOwnResponse ==
    got.outcome = "result" => (got.id = got.for /\ got.result = got.for)

\* C13: parse_tool_result never raises and yields a mapping with a status:
\* for a null result, a missing or empty content, a first content item
\* without text, a text that is not JSON and a text that is JSON but not an
\* object, the mapping has status "error" and a message.
C13_MalformedIsError ==
    (pc = "idle" /\ op.name = "parse_tool_result") =>
        /\ ~raised
        /\ "status" \in DOMAIN ret
        /\ resp.kind # "result" => (ret.status = "error" /\ ret.message # "")

-----------------------------------------------------------------------------
(* Finding an element in a web context.                                    *)

\* C16: in a web context, when every synthesized candidate has failed,
\* smart_find_element does not raise: it returns no element and a result
\* with status "error".  (The call went past the direct attempt's place
\* without ever asking for the full page source, and no attempt is left.)
C16_WebExhaustedIsError ==
    (/\ pc = "idle"
     /\ op.name = "find_element"
     /\ Len(log) > 4
     /\ trials = <<>>
     /\ \A k \in 1..Len(log) : log[k].arg # "full")
        => (/\ ~raised
            /\ ret.status = "error"
            /\ ret.element_id = None)

\* C18: the attempts on the candidates of the inspection fallback are made
\* candidate by candidate, for each one in the order accessibility id,
\* xpath, id, class name, leaving out the locators the candidate lacks: the
\* first request is find_element with the first candidate's accessibility
\* id when it has one.  An attempt that ends in an exception is passed over
\* like a failed one; the first attempt the backend answers with an element
\* ends the call with that result, and the call ends early in no other way.
C18_StrategiesInOrder ==
    /\ [](candidates # <<>> =>
            LET Locators(c) ==
                    SelectSeq(<<<<"accessibility_id", Val("{}", <<c.element.accessibility_id>>)>>,
                                <<"xpath", Val("//{}", <<<<c.element.tag>>>>)>>,
                                <<"id", Val("{}", <<c.element.id>>)>>,
                                <<"class_name", Val("{}", <<c.element.class_name>>)>>>>,
                              LAMBDA l : Strip(l[2].args[1]) # <<>>)
                Expected[n \in 0..Len(candidates)] ==
                    IF n = 0 THEN <<>> ELSE Expected[n - 1] \o Locators(candidates[n])
                expected == Expected[Len(candidates)]
                sent == SelectSeq(log, LAMBDA e : e.ev = "req" /\ e.tier # "")
            IN  /\ Len(sent) <= Len(expected)
                /\ \A k \in 1..Len(sent) :
                      /\ sent[k].tool = "appium_find_element"
                      /\ sent[k].strategy = expected[k][1]
                      /\ sent[k].value = expected[k][2]
                /\ ~raised
                /\ pc = "idle" =>
                      IF Len(sent) < Len(expected)
                      THEN ret.status = "success" /\ ~Falsy(ret.element_id)
                      ELSE ret.status \in {"success", "error"})
    /\ [][(pc = "candidate_try" /\ resp.kind = "result" /\ resp.obj.status = "success"
              /\ ~Falsy(resp.obj.element_id))
             => (pc' = "idle" /\ ret' = resp.obj /\ log' = log
                 /\ last_element_id' = resp.obj.element_id)]_vars

\* The first attempt on the candidates failed or raised, the second one
\* found the element, and attempts were left.
C18_Witness ==
    /\ pc = "idle"
    /\ candidates # <<>>
    /\ Len(SelectSeq(log, LAMBDA e : e.ev = "req" /\ e.tier # "")) = 2
    /\ Len(try_element_candidates(candidates)) > 2
    /\ candidates[1].element.accessibility_id # <<>>
    /\ ret.status = "success"

\* C19: the candidate search covers the weaker tiers: an element none of
\* whose text, accessibility id and label holds the whole target, but one of
\* whose fields holds a word of the target longer than two characters, or
\* holds the target once the characters that are not letters or digits are
\* dropped from both, is a candidate of tier "partial_word" or "fuzzy", and
\* it comes after every "exact" and "contains" candidate.
C19_WeakerTiersCovered ==
    (pc = "idle" /\ op.name = "find_element_candidates") =>
        LET target == Strip(Lower(op.target_text))
            Fields(e) == {Strip(Lower(e.text)), Strip(Lower(e.accessibility_id)),
                          Strip(Lower(e.label))}
            IsWord(i, j) ==
                /\ j - i + 1 > 2
                /\ \A k \in i..j : target[k] # " "
                /\ i = 1 \/ target[i - 1] = " "
                /\ j = Len(target) \/ target[j + 1] = " "
            AlNum(t) ==
                SelectSeq(t, LAMBDA ch :
                    ch \in {"a", "b", "c", "d", "e", "f", "g", "h", "i", "j", "k", "l", "m",
                            "n", "o", "p", "q", "r", "s", "t", "u", "v", "w", "x", "y", "z",
                            "0", "1", "2", "3", "4", "5", "6", "7", "8", "9"})
            Whole(e) == \E f \in Fields(e) : Contains(f, target)
            PartialWord(e) ==
                \E f \in Fields(e) : \E i, j \in 1..Len(target) :
                    IsWord(i, j) /\ Contains(f, SubSeq(target, i, j))
            Fuzzy(e) ==
                /\ Len(AlNum(target)) > 2
                /\ \E f \in Fields(e) : Contains(AlNum(f), AlNum(target))
        IN  \A n \in DOMAIN op.elements :
                (~Whole(op.elements[n]) /\ (PartialWord(op.elements[n]) \/ Fuzzy(op.elements[n])))
                    => \E k \in DOMAIN candidates :
                          /\ candidates[k].element = op.elements[n]
                          /\ candidates[k].tier \in {"partial_word", "fuzzy"}
                          /\ \A m \in DOMAIN candidates :
                                candidates[m].tier \in {"exact", "contains"} => m < k

\* C17: the strategy builder puts a target text into one role: the generic
\* candidates (the ones built from the text itself with //*[contains(@class,
\* ...)]) are in the list only when the text holds no keyword of the
\* username, password, button, link and menu sets.
C17_GenericOnlyWhenNoRole ==
    (/\ pc = "idle"
     /\ op.name = "build_smart_strategies"
     /\ \E i \in DOMAIN trials :
           trials[i].value.f = "//*[contains(@class, '{}') or contains(@class, '{}')]")
        => \A keywords \in {username_keywords, password_keywords, button_keywords,
                             link_keywords, menu_keywords} :
              ~AnyKeyword(keywords, op.target_lower)

-----------------------------------------------------------------------------
(* The element a call acts on.                                             *)

\* C27: a resolution that returns an element id e leaves e as the last
\* resolved element id, whether the direct attempt, the web strategies or
\* the inspection fallback found it; a resolution that returns no element
\* leaves the last resolved element id as it was, at its return and at
\* every step before it.
C27_LastElementIsTheResolved ==
    [][(op'.name = "find_element") =>
          IF pc' = "idle" /\ ~raised' /\ ret'.status = "success" /\ ~Falsy(ret'.element_id)
          THEN last_element_id' = ret'.element_id
          ELSE last_element_id' = last_element_id]_vars

\* The inspection fallback has found an element other than the last
\* resolved one.
C27_Witness ==
    /\ op.name = "find_element"
    /\ pc = "idle"
    /\ candidates # <<>>
    /\ calls > 1
    /\ ret.status = "success"
    /\ ret.element_id = "e2"
    /\ last_element_id = "e2"

\* C26: smart_tap_element and smart_get_text called with a null, an empty
\* or a placeholder element id act on the last resolved element; when no
\* element has been resolved they return an error result that says no
\* element is available, and no request is sent to the backend.
C26_FallsBackToLastElement ==
    (op.name \in {"tap", "get_text"} /\ (op.given \in invalid_patterns)) =>
        IF Falsy(last_element_id)
        THEN /\ pc = "idle"
             /\ log = <<>>
             /\ inflight = NoReq
             /\ ~raised
             /\ ret.status = "error"
             /\ ret.message = IF op.name = "tap" THEN "No element ID available for tap"
                               ELSE "No element ID available for get text"
        ELSE /\ op.element_id = last_element_id
             /\ log # <<>>
             /\ (inflight.tool = "appium_tap_element" /\ op.name = "tap")
                   => inflight = TapReq(last_element_id)
             /\ (inflight.tool = "appium_get_text" /\ pc = "get_text")
                   => inflight = GetTextReq(last_element_id)

\* A tap with a placeholder id has been sent for the last resolved element.
C26_Witness ==
    /\ op.name = "tap"
    /\ op.given = "last_element_id"
    /\ ~Falsy(last_element_id)
    /\ pc = "tap_tap"
    /\ inflight = TapReq(last_element_id)

\* C28: within one interactive run, a tap that gives no element id acts
\* on the element the latest successful resolution before it returned,
\* whether that resolution was made in the same batch of tool calls or in
\* the batch of an earlier prompt.
C28_ResolvedElementVisibleLater ==
    \A n \in DOMAIN handled : \A k \in DOMAIN handled :
        (/\ n < k
         /\ handled[n].outcome = "resolved"
         /\ handled[k].outcome \in {"tapped", "no_element"}
         /\ \A j \in (n + 1)..(k - 1) : handled[j].outcome # "resolved")
            => (handled[k].outcome = "tapped" /\ handled[k].element = handled[n].element)

-----------------------------------------------------------------------------
(* The backend's drivers.                                                  *)

\* The drivers whose session on the Appium server is running.
LiveDrivers == {d \in DOMAIN drivers : drivers[d] = "live"}

\* C29: at every moment at most one driver session is live in the
\* backend, and a live driver is the one active_session refers to: a
\* start_session while a session is active does not leave the earlier
\* driver running and unreferenced.
C29_AtMostOneLiveDriver ==
    /\ Cardinality(LiveDrivers) <= 1
    /\ \A d \in LiveDrivers : active_session.driver = d

\* C30: when a quit_session call has returned to its caller, the
\* controller holds no active driver and no driver session is live; the
\* client has not marked the session inactive over a live driver.
C30_QuitLeavesNoDriver ==
    (pc = "idle" /\ op.name = "quit_session" /\ ~raised)
        => (/\ ~session_active
            /\ active_session.driver = 0
            /\ LiveDrivers = {})

-----------------------------------------------------------------------------
(* The backend's tools on elements.                                        *)

\* C31: an input_text tool call with a text, a supported strategy and a
\* value and no element id, served while a session is active, first finds
\* the element by that strategy and value and then types the text into it.
C31_InputResolvesThenTypes ==
    (/\ op.name = "appium_input_text"
     /\ op.session
     /\ Falsy(op.arguments.element_id)
     /\ op.arguments.strategy \in LocatorStrategies
     /\ ~Falsy(op.arguments.value))
        => (/\ trials # <<>>
            /\ trials[1] = "find_element"
            /\ ret.status = "success" => trials = <<"find_element", "send_keys">>)

\* C39: the controller's tap_element clicks the stored element at most
\* three times and clicks again only after a stale-element exception; it
\* returns success at the first click that succeeds, an error after the
\* third stale click and after any other exception, and an error without
\* a click when no session is active or the id is not in the element
\* store; it returns in every case.
C39_TapClicksAtMostThrice ==
    (op.name = "appium_tap_element") =>
        LET n == Len(trials)
        IN  /\ n <= 3
            /\ (op.session /\ op.stored) => n >= 1
            /\ ~(op.session /\ op.stored) => (n = 0 /\ ret.status = "error")
            /\ \A i \in 1..(n - 1) : trials[i] = "stale"
            /\ n > 0 => /\ (trials[n] = "ok") <=> (ret.status = "success")
                        /\ (trials[n] # "ok") => (ret.status = "error")
                        /\ (trials[n] = "stale") => (n = 3)
            /\ ~raised

\* A tap that succeeded at its third click, after two stale clicks.
C39_Witness ==
    /\ op.name = "appium_tap_element"
    /\ trials = <<"stale", "stale", "ok">>
    /\ ret.status = "success"

\* C40: the controller's element store holds only elements found with the
\* driver of the active session: once a session has ended, by quit_session
\* or by a start_session that failed, the ids found in it are in the store
\* no longer, so that no later call is made on an element of that session.
C40_StoreOfActiveDriverOnly ==
    /\ \A e \in DOMAIN controller_element_store :
           controller_element_store[e] = active_session.driver
    /\ (/\ op.name \in {"appium_tap_element", "appium_get_text", "appium_input_text"}
        /\ op.stored
        /\ op.store_before[op.arguments.element_id] # active_session.driver)
           => (trials = <<>> /\ ret.status = "error")

-----------------------------------------------------------------------------
(* The extraction of a snapshot.                                           *)

\* C32: the extractor returns no more than max_elements descriptors, and
\* those it returns are the first nodes with useful information in
\* depth-first pre-order (the document order): a node without useful
\* information is left out and its children are still visited.
C32_FirstQualifyingInPreOrder ==
    (pc = "idle" /\ op.name = "enhanced_extract_selectors") =>
        LET Qualifies(i) == has_useful_info(op.tree[i].element_info)
            qualifying == SelectSeq([i \in 1..Len(op.tree) |-> i], Qualifies)
            n == IF Len(qualifying) < op.limit THEN Len(qualifying) ELSE op.limit
        IN  /\ Len(op.elements) <= op.limit
            /\ op.nodes = SubSeq(qualifying, 1, n)
            /\ op.elements = [k \in 1..n |-> op.tree[qualifying[k]].element_info]

\* An extraction cut at max_elements, from a tree whose root has no useful
\* information and whose nodes with useful information are under it.
C32_Witness ==
    /\ pc = "idle"
    /\ op.name = "enhanced_extract_selectors"
    /\ op.limit = 2
    /\ ~has_useful_info(op.tree[1].element_info)
    /\ Len(op.tree) = 4
    /\ op.nodes = <<2, 3>>
    /\ has_useful_info(op.tree[4].element_info)

-----------------------------------------------------------------------------
(* The requests on the backend's channel.                                  *)

\* C33: on one connection to the backend the ids of the requests written
\* strictly increase, over the batches of an interactive run as well, so
\* that no id is written twice; a notification is written without an id.
C33_RequestIdsIncrease ==
    LET ids == SelectSeq(stdin, LAMBDA line : line # 0)
    IN  \A i \in DOMAIN ids : \A j \in DOMAIN ids : i < j => ids[i] < ids[j]

\* C34: at every moment at most one request has been written to the
\* backend whose response has not been read: a request is written only
\* when the response to every earlier request has been read.  It is stated
\* for a backend that is running, whose output has not ended.
C34_OneRequestOutstanding ==
    LET unhandled == {stdin[i] : i \in DOMAIN stdin}
        unread    == {stdout[i].id : i \in {k \in DOMAIN stdout : stdout[k].kind \in {"result", "error"}}}
        running   == \A i \in DOMAIN stdout : stdout[i].kind # "eof"
    IN  running => Cardinality(unhandled \cup unread) <= 1

-----------------------------------------------------------------------------
(* The inspection fallback.                                                *)

\* The page-source result from which no snapshot can be extracted: its
\* status is not "success", or its markup is empty or cannot be parsed.
ExtractionFails(parsed) ==
    parsed.status # "success" \/ parsed.page_source.kind \in {"empty", "garbage"}

\* Some node of the markup with useful information holds the target in its
\* text, accessibility id or label.
SomeNodeMatches(markup, target_text) ==
    \E i \in DOMAIN markup.nodes :
        /\ has_useful_info(markup.nodes[i])
        /\ \E field \in {markup.nodes[i].text, markup.nodes[i].accessibility_id,
                         markup.nodes[i].label} :
              Contains(Strip(Lower(field)), Strip(Lower(target_text)))

C36_ExplicitIdActedOn ==
    ("tool_id" \in DOMAIN op /\ op.tool_id \notin invalid_patterns) =>
        /\ op.element_id = op.tool_id
        /\ inflight.tool \in {"appium_tap_element", "appium_get_text", "appium_input_text"}
              => inflight.element_id = op.tool_id

\* C37: the scroll-up-then-tap alternate does not report a successful tap
\* for a change of page that the scroll alone made: when the taps before
\* the scroll left the app on the page fingerprinted at first, the scroll
\* brought up another page and the tap after it left that page as it was,
\* the call does not return "Scroll and tap successful".
C37_ScrollAloneIsNoSuccessfulTap ==
    [][LET n == Len(screen)
       IN  (/\ pc = "alt_scroll_fp"
            /\ \A i \in 1..(n - 2) : screen[i] = screen[1]
            /\ screen[n - 1] # screen[1]
            /\ screen[n] = screen[n - 1])
              => ~(pc' = "idle" /\ ret'.message = "Scroll and tap successful")]_vars

\* C38: scroll_to_find_element makes at most max_scrolls resolution
\* attempts and sends at most max_scrolls scrolls; once it has returned, it
\* has returned the element right after the attempt that found it, with no
\* scroll after that attempt, or it has returned no element and the status
\* "error", and then every scroll it sent was followed by a resolution
\* attempt.
C38_ScrollToFindBounded ==
    op.name = "scroll_to_find_element" =>
        LET attempts == {k \in DOMAIN log : /\ log[k].ev = "req"
                                            /\ log[k].tool = "appium_get_page_source"
                                            /\ log[k].arg = "brief"}
            scrolls  == {k \in DOMAIN log : log[k].ev = "req" /\ log[k].tool = "appium_scroll"}
        IN  /\ Cardinality(attempts) <= op.max_scrolls
            /\ Cardinality(scrolls) <= op.max_scrolls
            /\ op.at = "done" =>
                  /\ Falsy(ret.element_id) => ret.status = "error"
                  /\ \A k \in scrolls : \E a \in attempts : a > k

-----------------------------------------------------------------------------
(* The session arguments.                                                  *)

\* C24: on iOS, when the app resolves to the Safari bundle and the
\* arguments hold none of udid, xcode_org_id and wda_bundle_id, the
\* normalized arguments have no bundle_id; when one of them is there, the
\* bundle_id is com.apple.mobilesafari; every other resolved bundle is
\* always passed as bundle_id.
C24_SafariBundleOnRealDeviceOnly ==
    (/\ pc = "idle"
     /\ op.name = "normalize_app_identifier"
     /\ op.app_info.platform # <<>>
     /\ Lower(op.app_info.platform[1]) = <<"i", "o", "s">>
     /\ resolve_app(op.app_info).bundle_id # <<>>)
        => LET bundle_id == resolve_app(op.app_info).bundle_id
               real_device == \/ op.app_info.udid # <<>>
                              \/ op.app_info.xcode_org_id # <<>>
                              \/ op.app_info.wda_bundle_id # <<>>
           IN  IF bundle_id = <<<<"c", "o", "m", ".", "a", "p", "p", "l", "e", ".", "m", "o", "b", "i", "l", "e", "s", "a", "f", "a", "r", "i">>>>
               THEN op.normalized.bundle_id = IF real_device THEN <<<<"c", "o", "m", ".", "a", "p", "p", "l", "e", ".", "m", "o", "b", "i", "l", "e", "s", "a", "f", "a", "r", "i">>>> ELSE <<>>
               ELSE op.normalized.bundle_id = bundle_id

\* The arguments {platform: iOS, app: safari} without a real-device key
\* have been normalized.
C24_Witness ==
    /\ pc = "idle"
    /\ op.name = "normalize_app_identifier"
    /\ op.app_info = AppInfo(<<<<"i", "O", "S">>>>, <<<<"s", "a", "f", "a", "r", "i">>>>, <<>>, <<>>, <<>>, <<>>, <<>>)
    /\ op.normalized.bundle_id = <<>>

\* C25: on Android, when the app resolves to a package P and the arguments
\* give no activity under app_activity or appActivity, the normalized
\* arguments have app_package = P and app_activity = P.MainActivity; an
\* activity that is given is passed as app_activity and is not replaced by
\* the synthesized one.
C25_AndroidActivity ==
    (/\ pc = "idle"
     /\ op.name = "normalize_app_identifier"
     /\ op.app_info.platform # <<>>
     /\ Lower(op.app_info.platform[1]) = <<"a", "n", "d", "r", "o", "i", "d">>
     /\ resolve_app(op.app_info).bundle_id # <<>>)
        => LET P == resolve_app(op.app_info).bundle_id[1]
           IN  /\ op.normalized.app_package = <<P>>
               /\ IF op.app_info.app_activity = <<>> /\ op.app_info.appActivity = <<>>
                  THEN op.normalized.app_activity = <<P \o <<".", "M", "a", "i", "n", "A", "c", "t", "i", "v", "i", "t", "y">>>>
                  ELSE op.normalized.app_activity \in
                           {op.app_info.app_activity, op.app_info.appActivity} \ {<<>>}

\* The arguments {platform: Android, app: com.example.app} without an
\* activity have been normalized.
C25_Witness ==
    /\ pc = "idle"
    /\ op.name = "normalize_app_identifier"
    /\ op.app_info = AppInfo(<<<<"A", "n", "d", "r", "o", "i", "d">>>>, <<<<"c", "o", "m", ".", "e", "x", "a", "m", "p", "l", "e", ".", "a", "p", "p">>>>, <<>>, <<>>, <<>>, <<>>, <<>>)
    /\ op.normalized.app_activity = <<<<"c", "o", "m", ".", "e", "x", "a", "m", "p", "l", "e", ".", "a", "p", "p", ".", "M", "a", "i", "n", "A", "c", "t", "i", "v", "i", "t", "y">>>>

-----------------------------------------------------------------------------
(* The page-change test.                                                   *)

\* C20: a fingerprint compared with itself is never a change, the
\* fingerprint {} of a page source that could not be read included.
C20_SameFingerprintNoChange ==
    (pc = "idle" /\ op.name = "did_page_change" /\ op.fingerprint_after = fingerprint_before)
        => ~op.page_changed

\* A fingerprint of a page with elements has been compared with itself.
C20_Witness ==
    /\ pc = "idle"
    /\ op.name = "did_page_change"
    /\ op.fingerprint_after = fingerprint_before
    /\ ~fingerprint_before.empty
    /\ fingerprint_before.element_count > 0

\* C21: for two fingerprints that agree on content hash, element count,
\* title, form count and button count, the test gives the same answer for
\* (A, B) and for (B, A): the unique-id signal and the text-snippet signal
\* do not depend on which one is "before".
C21_IdAndTextSignalsSymmetric ==
    (/\ pc = "idle"
     /\ op.name = "did_page_change"
     /\ ~fingerprint_before.empty
     /\ ~op.fingerprint_after.empty
     /\ fingerprint_before.source_hash = op.fingerprint_after.source_hash
     /\ fingerprint_before.element_count = op.fingerprint_after.element_count
     /\ fingerprint_before.title = op.fingerprint_after.title
     /\ fingerprint_before.form_count = op.fingerprint_after.form_count
     /\ fingerprint_before.button_count = op.fingerprint_after.button_count)
        => op.page_changed = did_page_change(op.fingerprint_after, fingerprint_before)

\* Two fingerprints that differ in their ids alone, three ids having gone,
\* have been compared and found changed.
C21_Witness ==
    /\ pc = "idle"
    /\ op.name = "did_page_change"
    /\ ~fingerprint_before.empty
    /\ ~op.fingerprint_after.empty
    /\ [fingerprint_before EXCEPT !.unique_ids = {}] = op.fingerprint_after
    /\ Cardinality(fingerprint_before.unique_ids) > 2
    /\ op.page_changed

\* C22: for two non-empty fingerprints that differ in a count alone, the
\* test reports a change exactly when the element count differs by more
\* than 10% of the before count or the button count differs by more than 2,
\* for an increase and a decrease alike and for every before count, 0
\* included.
C22_CountThresholds ==
    (/\ pc = "idle"
     /\ op.name = "did_page_change"
     /\ ~fingerprint_before.empty
     /\ ~op.fingerprint_after.empty
     /\ [fingerprint_before EXCEPT !.element_count = 0, !.button_count = 0]
            = [op.fingerprint_after EXCEPT !.element_count = 0, !.button_count = 0])
        => (op.page_changed <=>
              \/ 10 * Abs(fingerprint_before.element_count, op.fingerprint_after.element_count)
                    > fingerprint_before.element_count
              \/ Abs(fingerprint_before.button_count, op.fingerprint_after.button_count) > 2)

\* C23: one signal is enough: two fingerprints of equal content hash and
\* element count whose titles differ (an empty title against a non-empty
\* one included) are a change, and so are two fingerprints equal in
\* everything but the form count.
C23_TitleOrFormsAlone ==
    (/\ pc = "idle"
     /\ op.name = "did_page_change"
     /\ ~fingerprint_before.empty
     /\ ~op.fingerprint_after.empty)
        => /\ (/\ fingerprint_before.source_hash = op.fingerprint_after.source_hash
               /\ fingerprint_before.element_count = op.fingerprint_after.element_count
               /\ fingerprint_before.title # op.fingerprint_after.title)
                  => op.page_changed
           /\ (/\ fingerprint_before.form_count # op.fingerprint_after.form_count
               /\ [fingerprint_before EXCEPT !.form_count = 0]
                      = [op.fingerprint_after EXCEPT !.form_count = 0])
                  => op.page_changed

\* Two fingerprints that differ in the title alone, one title being empty,
\* have been compared.
C23_Witness ==
    /\ pc = "idle"
    /\ op.name = "did_page_change"
    /\ ~fingerprint_before.empty
    /\ fingerprint_before.title = ""
    /\ op.fingerprint_after = [fingerprint_before EXCEPT !.title = "A"]
    /\ op.page_changed

-----------------------------------------------------------------------------
(* The run of a list of calls.                                             *)

\* C14: a call that fails (a block that is not JSON, an error result of the
\* backend, an exception of the transport or of the client) does not stop
\* the run: the loop goes through the blocks once each, in list order, and
\* returns only after the last one.
C14_LaterCallsDispatched ==
    /\ \A k \in 1..Len(handled) : handled[k].index = k
    /\ phase = "loop" => Len(handled) = block_i - 1
    /\ phase = "returned" => Len(handled) = Len(json_blocks)
    /\ phase = "terminated" => Len(handled) \in {0, Len(json_blocks)}

\* A run has returned in which the first call raised and the second one
\* was made after it.
C14_Witness ==
    /\ phase = "returned"
    /\ Len(handled) >= 2
    /\ handled[1].outcome = "exception"
    /\ handled[2].outcome = "success"

\* C15: once a call has found the backend process dead (no response), the
\* run makes no further call, and it ends with an attempt at an orderly
\* teardown of the session.
C15_StopsWhenBackendDies ==
    /\ \A k \in 1..Len(handled) : handled[k].outcome = "no_response" => k = Len(handled)
    /\ (phase = "terminated" /\ \E k \in 1..Len(handled) : handled[k].outcome = "no_response")
          => handled[Len(handled)].outcome = "teardown"

-----------------------------------------------------------------------------
(* Stale-element recovery.                                                 *)

\* C7: the recovery sends the Name-cell find first, the four structural
\* xpaths next and in their order, the page-source read last and only after
\* the fourth xpath; when strategy 1 returns a text (its text read yields a
\* non-empty text that, stripped, is not "Name") that text is returned and
\* strategies 2 and 3 send nothing; when strategy 2 returns a text (a text
\* read yields a text that, stripped, is neither empty nor "Name") it is
\* returned and strategy 3 sends nothing.
C7_RecoveryOrder ==
    /\ [](op.name = "get_text" =>
            LET reqs   == SelectSeq(log, LAMBDA e : e.ev = "req")
                finds  == SelectSeq(reqs, LAMBDA e : e.tool = "appium_find_element")
                xpaths == SelectSeq(finds, LAMBDA e : e.strategy = "xpath")
            IN  /\ reqs # <<>> => reqs[1].tool = "appium_get_text"
                /\ \A i \in DOMAIN reqs :
                      reqs[i].tool = "appium_get_page_source" =>
                          (i = Len(reqs) /\ Len(xpaths) = Len(xpath_strategies))
                /\ \A i \in DOMAIN finds :
                      (i = 1) <=> (finds[i].strategy = "accessibility_id")
                /\ finds # <<>> => (reqs[2] = finds[1] /\ finds[1].value = Val("Name", <<>>))
                /\ Len(xpaths) <= Len(xpath_strategies)
                /\ \A i \in DOMAIN xpaths : xpaths[i].value = Val(xpath_strategies[i], <<>>)
                /\ (pc = "idle" /\ ret.message = "name_cell_recovery") => Len(reqs) = 3
                /\ (pc = "idle" /\ ret.message = "xpath_recovery") =>
                      reqs[Len(reqs)].tool = "appium_get_text")
    /\ [][(/\ At("name_cell_text")
           /\ resp.kind # "raise"
           /\ parse_tool_result(resp).status = "success"
           /\ parse_tool_result(resp).text # <<>>
           /\ Strip(parse_tool_result(resp).text) # NameText) =>
              /\ pc' = "idle"
              /\ ret'.status = "success"
              /\ ret'.text = parse_tool_result(resp).text
              /\ ret'.message = "name_cell_recovery"
              /\ log' = log]_vars
    /\ [][(/\ At("xpath_text")
           /\ resp.kind # "raise"
           /\ parse_tool_result(resp).status = "success"
           /\ Strip(parse_tool_result(resp).text) \notin {<<>>, NameText}) =>
              /\ pc' = "idle"
              /\ ret'.status = "success"
              /\ ret'.text = parse_tool_result(resp).text
              /\ ret'.message = "xpath_recovery"
              /\ log' = log]_vars

\* Strategy 1 recovered a text: the call sent its text read, the Name-cell
\* find and the text read of the Name cell, and nothing else.
C7_Witness ==
    /\ pc = "idle"
    /\ op.name = "get_text"
    /\ ret.message = "name_cell_recovery"
    /\ ret.text = <<"B", "o", "b">>
    /\ Len(log) = 6

\* C8: a text read that failed with a stale-element error and whose three
\* recoveries all failed (by an error result or by an exception inside a
\* strategy) does not raise and returns an error result with error_type
\* StaleElementReferenceException and recovery_attempted true; an error
\* returned without recovery never has recovery_attempted true.
C8_StaleExhausted ==
    (pc = "idle" /\ op.name = "get_text") =>
        /\ (Len(log) > 2 /\ ret.status # "success") =>
              /\ ~raised
              /\ ret.status = "error"
              /\ ret.error_type = "StaleElementReferenceException"
              /\ ret.recovery_attempted = TRUE
        /\ Len(log) <= 2 => ret.recovery_attempted = FALSE

\* All three recoveries failed: the finds of strategies 1 and 2 found
\* nothing and the page source held no value.
C8_Witness ==
    /\ pc = "idle"
    /\ op.name = "get_text"
    /\ Len(log) = 14
    /\ ret.status = "error"
    /\ ret.recovery_attempted = TRUE

-----------------------------------------------------------------------------
(* Tapping: the order of the requests and the results.                     *)

C4_ErrorResultNoRaise ==
    (pc = "idle" /\ op.name = "tap" /\ Len(log) > 6) =>
        /\ ~raised
        /\ ret.status # "success" => ret.status = "error"

\* C5: when the backend reports failure for the first tap, that result is
\* returned as it came and no further request is sent.
C5_TapFailureReturned ==
    [][(/\ At("tap_tap")
        /\ resp.kind # "raise"
        /\ parse_tool_result(resp).status # "success") =>
           /\ pc' = "idle"
           /\ raised' = FALSE
           /\ ret' = parse_tool_result(resp)
           /\ inflight' = NoReq
           /\ log' = log]_vars

\* The backend answered the first tap with an error result and the call
\* returned it after two requests.
C5_Witness ==
    /\ pc = "idle"
    /\ op.name = "tap"
    /\ ret = Error("failed")
    /\ Len(log) = 4

\* C6: the requests of one smart_tap_element call are strictly ordered: the
\* page-source read of the first fingerprint is answered before the tap is
\* sent, and the tap is answered before the page-source read of the second
\* fingerprint is sent.
C6_FingerprintTapFingerprint ==
    op.name = "tap" =>
        /\ \A i \in DOMAIN log : log[i].ev = (IF i % 2 = 1 THEN "req" ELSE "resp")
        /\ Len(log) >= 1 => log[1] = Event("req", PageSourceReq(FALSE), "")
        /\ Len(log) >= 2 => log[2] = Event("resp", PageSourceReq(FALSE), "")
        /\ Len(log) >= 3 => log[3] = Event("req", TapReq(op.element_id), "")
        /\ Len(log) = 3 => inflight = TapReq(op.element_id)
        /\ Len(log) >= 4 => log[4] = Event("resp", TapReq(op.element_id), "")
        /\ Len(log) >= 5 => log[5] = Event("req", PageSourceReq(FALSE), "")

\* The second fingerprint was read after the tap and showed a change.
C6_Witness ==
    /\ pc = "idle"
    /\ op.name = "tap"
    /\ ret.message = "Standard tap successful"
    /\ Len(log) = 6

====
